---------------------------- MODULE Spec2Model ----------------------------
(***************************************************************************)
(* A model of the geometry core of the renderama path tracer: the          *)
(* axis-aligned bounding box, the hitable primitives, the brute-force      *)
(* World scan, the bounding volume hierarchy and the Light material.       *)
(*                                                                         *)
(* Numbers.  An f32 is modelled as an extended rational <<n, d>>:          *)
(*   d > 0   the finite value n/d in lowest terms,                         *)
(*   <<1,0>>, <<-1,0>>   +infinity and -infinity,                           *)
(*   <<0,0>>   NaN.                                                        *)
(* Arithmetic is exact (no rounding); the IEEE rules for infinities and    *)
(* NaN are kept, since the slab test and the triangle test depend on them. *)
(* The sign of zero is not tracked: 1/0 is +infinity.                      *)
(***************************************************************************)
EXTENDS Integers, Sequences, FiniteSets, TLC

VARIABLES
    build,          \* the Vec3 back end the binary was compiled with: "sse2" or "scalar"
    scene,          \* the primitive list as the scene builder assembled it
    objects,        \* World.objects (BVH::from sorts and splits it)
    bvh,            \* what BVH construction returned: Unbuilt, Panic or a node
    ray,            \* the ray of the last query
    position_min,   \* the query range of the last query
    position_max,
    record,         \* Option<HitRecord> the queried hitable returned
    brute,          \* Option<HitRecord> World.hit returned for the same query
    boxes,          \* the AABB operands a, b, c of the last box operation
    box_out,        \* what the last box operation returned
    emitted,        \* Material::emitted for the last hit
    scattered,      \* Material::scatter for the last hit
    frame_normal,   \* the normal an OrthonormalBase is asked for
    uvw,            \* the OrthonormalBase last constructed
    pdf,            \* the MixturePDF of the current scattering event
    pdf_direction,  \* the direction the PDF was evaluated for
    pdf_value,      \* what MixturePDF::value returned
    rng_draws,      \* the uniform draws rng handed to MixturePDF::generate
    generated,      \* what MixturePDF::generate returned
    light_source,   \* compute_color's light_source
    atmosphere,     \* compute_color's atmosphere
    bounces,        \* compute_color's bounces
    bounce,         \* the loop variable of compute_color
    color,          \* compute_color's color
    throughput,     \* compute_color's throughput
    queries,        \* how many times compute_color has called world.hit
    roulette_draws, \* how many times compute_color has drawn for Russian roulette
    roulette_draw,  \* the last uniform draw of the Russian roulette
    pixels,         \* main's pixels: one Rgb slot per pixel index
    writes,         \* per pixel index, the workers that have stored to its slot, in order
    taken,          \* the pixel indices the parallel iterator has handed out
    workers,        \* per rayon worker, the pixel index its closure is running for
    pc              \* the step the program has just performed

\* the state of importance sampling
sampling == <<frame_normal, uvw, pdf, pdf_direction, pdf_value, rng_draws, generated>>

\* the state of compute_color
path == <<light_source, atmosphere, bounces, bounce, color, throughput, queries,
          roulette_draws, roulette_draw>>

\* the state of the pixel loop of main
render == <<pixels, writes, taken, workers>>

vars == <<build, scene, objects, bvh, ray, position_min, position_max,
          record, brute, boxes, box_out, emitted, scattered, sampling, path, render, pc>>

---------------------------------------------------------------------------
(* Bounds of the model *)

\* coordinates of box corners and ray origins range over -MaxCoord..MaxCoord
MaxCoord == 2

\* the longest primitive list handed to BVH construction
MaxObjects == 3

---------------------------------------------------------------------------
(* f32 as extended rationals *)

Abs(n) == IF n < 0 THEN -n ELSE n

Sgn(n) == IF n < 0 THEN -1 ELSE IF n > 0 THEN 1 ELSE 0

\* F at the value of e: e is evaluated once, as a `let` binding is
With(e, F(_)) == CHOOSE out \in {F(x) : x \in {e}} : TRUE

RECURSIVE GCD(_, _)
GCD(a, b) == IF b = 0 THEN a ELSE GCD(b, a % b)

\* lowest terms, positive denominator; a zero denominator keeps only the sign
Norm(x) ==
    IF x[2] = 0 THEN <<Sgn(x[1]), 0>>
    ELSE LET s == Sgn(x[2])
             g == GCD(Abs(x[1]), Abs(x[2]))
         IN  <<(s * x[1]) \div g, (s * x[2]) \div g>>

R(n) == <<n, 1>>

Q(n, d) == Norm(<<n, d>>)

PosInf == <<1, 0>>

NegInf == <<-1, 0>>

NaN == <<0, 0>>

IsNaN(x) == x = NaN

IsFinite(x) == x[2] # 0

Neg(x) == <<-x[1], x[2]>>

Mul(x, y) == Norm(<<x[1] * y[1], x[2] * y[2]>>)

Add(x, y) ==
    IF x[2] # 0 /\ y[2] # 0
    THEN LET g == GCD(x[2], y[2])
         IN  Norm(<<x[1] * (y[2] \div g) + y[1] * (x[2] \div g), x[2] * (y[2] \div g)>>)
    ELSE IF x[2] = 0 /\ y[2] # 0 THEN x
    ELSE IF x[2] # 0 /\ y[2] = 0 THEN y
    ELSE IF x[1] = y[1] THEN x ELSE NaN

Sub(x, y) == Add(x, Neg(y))

\* 1/x: 1/0 = +inf, 1/inf = 0, 1/NaN = NaN
Recip(x) ==
    IF x[1] = 0 THEN (IF x[2] = 0 THEN NaN ELSE PosInf)
    ELSE Norm(<<x[2] * Sgn(x[1]), Abs(x[1])>>)

Div(x, y) == Mul(x, Recip(y))

\* IEEE comparisons: every comparison with NaN is false
Lt(x, y) ==
    /\ ~IsNaN(x)
    /\ ~IsNaN(y)
    /\ IF x[2] = 0 /\ y[2] = 0 THEN x[1] < y[1] ELSE x[1] * y[2] < y[1] * x[2]

Le(x, y) ==
    /\ ~IsNaN(x)
    /\ ~IsNaN(y)
    /\ IF x[2] = 0 /\ y[2] = 0 THEN x[1] <= y[1] ELSE x[1] * y[2] <= y[1] * x[2]

Gt(x, y) == Lt(y, x)

Ge(x, y) == Le(y, x)

FAbs(x) == <<Abs(x[1]), x[2]>>

RECURSIVE ISqrtIter(_, _, _)
ISqrtIter(n, lo, hi) ==
    IF lo >= hi THEN lo
    ELSE LET mid == (lo + hi + 1) \div 2
         IN  IF mid * mid <= n THEN ISqrtIter(n, mid, hi) ELSE ISqrtIter(n, lo, mid - 1)

\* the integer square root, floor(sqrt(n)), n >= 0
ISqrt(n) == ISqrtIter(n, 0, IF n < 46340 THEN n ELSE 46340)

IsSquare(n) == n >= 0 /\ ISqrt(n) * ISqrt(n) = n

\* x has a square root that is itself a rational (or x is negative, infinite or NaN)
HasExactSqrt(x) == x[2] = 0 \/ x[1] < 0 \/ (IsSquare(x[1]) /\ IsSquare(x[2]))

\* f32::sqrt on the values whose root is exact: sqrt of a negative is NaN
Sqrt(x) ==
    IF IsNaN(x) \/ x[1] < 0 THEN NaN
    ELSE IF x[2] = 0 THEN PosInf
    ELSE <<ISqrt(x[1]), ISqrt(x[2])>>

\* f32::MAX: a finite value above every other finite value of the model
F32_MAX == 10000

FMAX == R(F32_MAX)

FMIN == R(-F32_MAX)

\* f32::min / f32::max: a NaN operand is ignored
ScalarMin(a, b) == IF IsNaN(a) THEN b ELSE IF IsNaN(b) THEN a ELSE IF Lt(b, a) THEN b ELSE a

ScalarMax(a, b) == IF IsNaN(a) THEN b ELSE IF IsNaN(b) THEN a ELSE IF Lt(a, b) THEN b ELSE a

\* _mm_min_ps / _mm_max_ps: a < b ? a : b, so a NaN in either lane gives b
SseMin(a, b) == IF Lt(a, b) THEN a ELSE b

SseMax(a, b) == IF Gt(a, b) THEN a ELSE b

FMin(a, b) == IF build = "sse2" THEN SseMin(a, b) ELSE ScalarMin(a, b)

FMax(a, b) == IF build = "sse2" THEN SseMax(a, b) ELSE ScalarMax(a, b)

---------------------------------------------------------------------------
(* Vec3 *)

V(x, y, z) == <<R(x), R(y), R(z)>>

VZero == V(0, 0, 0)

VAdd(a, b) == <<Add(a[1], b[1]), Add(a[2], b[2]), Add(a[3], b[3])>>

VSub(a, b) == <<Sub(a[1], b[1]), Sub(a[2], b[2]), Sub(a[3], b[3])>>

VNeg(a) == <<Neg(a[1]), Neg(a[2]), Neg(a[3])>>

VScale(s, a) == <<Mul(s, a[1]), Mul(s, a[2]), Mul(s, a[3])>>

\* component-wise product
VMul(a, b) == <<Mul(a[1], b[1]), Mul(a[2], b[2]), Mul(a[3], b[3])>>

VDot(a, b) == Add(Add(Mul(a[1], b[1]), Mul(a[2], b[2])), Mul(a[3], b[3]))

VCross(a, b) ==
    <<Sub(Mul(a[2], b[3]), Mul(a[3], b[2])),
      Sub(Mul(a[3], b[1]), Mul(a[1], b[3])),
      Sub(Mul(a[1], b[2]), Mul(a[2], b[1]))>>

VMin(a, b) == <<FMin(a[1], b[1]), FMin(a[2], b[2]), FMin(a[3], b[3])>>

VMax(a, b) == <<FMax(a[1], b[1]), FMax(a[2], b[2]), FMax(a[3], b[3])>>

\* Vec3::max_element / min_element: x.max(y.max(z)) in the scalar build; in the
\* sse2 build two shuffled _mm_max_ps, lane 0 of max(max(x,z), max(y,z))
MaxElement(a) ==
    IF build = "sse2" THEN SseMax(SseMax(a[1], a[3]), SseMax(a[2], a[3]))
    ELSE ScalarMax(a[1], ScalarMax(a[2], a[3]))

MinElement(a) ==
    IF build = "sse2" THEN SseMin(SseMin(a[1], a[3]), SseMin(a[2], a[3]))
    ELSE ScalarMin(a[1], ScalarMin(a[2], a[3]))

VReciprocal(a) == <<Recip(a[1]), Recip(a[2]), Recip(a[3])>>

VLength(a) == Sqrt(VDot(a, a))

\* Vec3::normalize: self * (1 / length)
VNormalize(a) == VScale(Recip(VLength(a)), a)

\* the vector has a rational length
HasExactLength(a) == HasExactSqrt(VDot(a, a))

\* nalgebra's Matrix::lt: every component is strictly less
VLt(a, b) == Lt(a[1], b[1]) /\ Lt(a[2], b[2]) /\ Lt(a[3], b[3])

---------------------------------------------------------------------------
(* Option<T> *)

None == <<>>

Some(x) == <<x>>

IsSome(o) == o # None

Unwrap(o) == o[1]

---------------------------------------------------------------------------
(* aabb.rs *)

\* AABB::from(minimum, maximum): the corners are stored as given
AABB_from(minimum, maximum) == [minimum |-> minimum, maximum |-> maximum]

\* AABB::new(): the empty box, minimum = f32::MAX and maximum = f32::MIN
AABB_new == AABB_from(<<FMAX, FMAX, FMAX>>, <<FMIN, FMIN, FMIN>>)

\* surrounding_box with the maximum taken from self alone
surrounding_box_self_max(self, other) ==
    AABB_from(VMin(self.minimum, other.minimum), self.maximum)

\* AABB::surrounding_box
surrounding_box(self, other) ==
    LET small == VMin(self.minimum, other.minimum)
        big   == VMax(self.maximum, other.maximum)
    IN  AABB_from(small, big)

\* AABB::longest_axis: the first axis whose extent equals diff.min_element()
AABB_longest_axis(self) ==
    LET diff == VSub(self.maximum, self.minimum)
        least == MinElement(diff)
    IN  IF ~IsNaN(diff[1]) /\ diff[1] = least THEN 0
        ELSE IF ~IsNaN(diff[2]) /\ diff[2] = least THEN 1
        ELSE 2

\* AABB::hit: the query range is not read
AABB_hit(self, r, p_min, p_max) ==
    LET t0   == VMul(VSub(self.minimum, r.origin), r.inverse_direction)
        t1   == VMul(VSub(self.maximum, r.origin), r.inverse_direction)
        tmin == VMin(t0, t1)
        tmax == VMax(t1, t0)
    IN  Le(MaxElement(tmin), MinElement(tmax))

---------------------------------------------------------------------------
(* ray.rs *)

\* Ray::new: the direction is normalized and its reciprocal cached
Ray_new(origin, direction, time) ==
    LET d == VNormalize(direction)
    IN  [origin |-> origin, direction |-> d, time |-> time,
         inverse_direction |-> VReciprocal(d)]

point_at_parameter(r, parameter) == VAdd(r.origin, VScale(parameter, r.direction))

---------------------------------------------------------------------------
(* hitable.rs: HitRecord *)

HitRecord_new(parameter, u, v, point, geometric_normal, shading_normal, material) ==
    [parameter |-> parameter, u |-> u, v |-> v, point |-> point,
     geometric_normal |-> geometric_normal, shading_normal |-> shading_normal,
     material |-> material]

---------------------------------------------------------------------------
(* sphere.rs *)

Sphere_new(start_center, end_center, radius, material, start_time, end_time) ==
    [kind |-> "sphere", start_center |-> start_center, end_center |-> end_center,
     radius |-> radius, material |-> material,
     start_time |-> start_time, end_time |-> end_time]

\* Sphere::center: linear interpolation between the two centres
Sphere_center(self, time) ==
    VAdd(self.start_center,
         VScale(Div(Sub(time, self.start_time), Sub(self.end_time, self.start_time)),
                VSub(self.end_center, self.start_center)))

\* roots.sort_by(partial_cmp) on the two roots
SortTwo(a, b) == IF Lt(b, a) THEN <<b, a>> ELSE <<a, b>>

\* the first element of roots the loop accepts
RECURSIVE FirstInRange(_, _, _)
FirstInRange(roots, p_min, p_max) ==
    IF roots = <<>> THEN None
    ELSE IF Gt(Head(roots), p_min) /\ Lt(Head(roots), p_max) THEN Some(Head(roots))
    ELSE FirstInRange(Tail(roots), p_min, p_max)

Sphere_discriminant(self, r) ==
    LET oc == VSub(r.origin, Sphere_center(self, r.time))
        a  == VDot(r.direction, r.direction)
        b  == VDot(oc, r.direction)
        c  == Sub(VDot(oc, oc), Mul(self.radius, self.radius))
    IN  Sub(Mul(b, b), Mul(a, c))

\* Sphere::hit with the roots kept in the order larger, smaller
Sphere_hit_far_first(self, r, p_min, p_max) ==
    LET oc   == VSub(r.origin, Sphere_center(self, r.time))
        a    == VDot(r.direction, r.direction)
        b    == VDot(oc, r.direction)
        disc == Sphere_discriminant(self, r)
        first_root  == Div(Sub(Neg(b), Sqrt(disc)), a)
        second_root == Div(Add(Neg(b), Sqrt(disc)), a)
        roots    == SelectSeq(<<second_root, first_root>>, LAMBDA t : Gt(t, R(0)))
        found    == FirstInRange(roots, p_min, p_max)
    IN  IF Ge(disc, R(0)) /\ IsSome(found)
        THEN LET root   == Unwrap(found)
                 point  == point_at_parameter(r, root)
                 normal == VScale(Recip(self.radius), VSub(point, Sphere_center(self, r.time)))
             IN  Some(HitRecord_new(root, R(0), R(0), point, normal, normal, self.material))
        ELSE None

\* Sphere::hit.  The texture coordinates get_sphere_uv derives from the normal
\* (atan2, asin) are not rational; the record carries 0 for them.
Sphere_hit(self, r, p_min, p_max) ==
    With(Sphere_discriminant(self, r), LAMBDA disc :
        IF ~Ge(disc, R(0)) THEN None
        ELSE With(Sphere_center(self, r.time), LAMBDA center :
             With(<<VDot(r.direction, r.direction),
                    VDot(VSub(r.origin, center), r.direction), Sqrt(disc)>>, LAMBDA abd :
             With(FirstInRange(
                      SelectSeq(SortTwo(Div(Sub(Neg(abd[2]), abd[3]), abd[1]),
                                        Div(Add(Neg(abd[2]), abd[3]), abd[1])),
                                LAMBDA t : Gt(t, R(0))),
                      p_min, p_max), LAMBDA found :
                 IF IsSome(found)
                 THEN With(point_at_parameter(r, Unwrap(found)), LAMBDA point :
                      With(VScale(Recip(self.radius), VSub(point, center)), LAMBDA normal :
                          Some(HitRecord_new(Unwrap(found), R(0), R(0), point, normal,
                                             normal, self.material))))
                 ELSE None))))

\* Sphere::bounding_box: the union of the boxes at the two ends of the time window
Sphere_bounding_box(self, t0, t1) ==
    LET radius == <<self.radius, self.radius, self.radius>>
        min0 == VSub(Sphere_center(self, t0), radius)
        max0 == VAdd(Sphere_center(self, t0), radius)
        min1 == VSub(Sphere_center(self, t1), radius)
        max1 == VAdd(Sphere_center(self, t1), radius)
        small == AABB_from(min0, max0)
        big   == AABB_from(min1, max1)
    IN  Some(surrounding_box(small, big))

---------------------------------------------------------------------------
(* plane.rs *)

Plane_new(axis, r0, r1, s0, s1, k, material) ==
    [kind |-> "plane", axis |-> axis, r0 |-> r0, r1 |-> r1, s0 |-> s0, s1 |-> s1,
     k |-> k, material |-> material]

\* the fixed axis and the two in-plane axes of each orientation
PlaneFixed(axis) == CASE axis = "XY" -> 3 [] axis = "YZ" -> 1 [] axis = "XZ" -> 2

PlaneFirst(axis) == CASE axis = "XY" -> 1 [] axis = "YZ" -> 2 [] axis = "XZ" -> 1

PlaneSecond(axis) == CASE axis = "XY" -> 2 [] axis = "YZ" -> 3 [] axis = "XZ" -> 3

UnitAxis(i) == [j \in 1..3 |-> IF j = i THEN R(1) ELSE R(0)]

\* Plane::hit: the three match arms differ only in the axes they read
Plane_hit(self, r, p_min, p_max) ==
    LET f == PlaneFixed(self.axis)
        i == PlaneFirst(self.axis)
        j == PlaneSecond(self.axis)
        t == Div(Sub(self.k, r.origin[f]), r.direction[f])
        x == Add(r.origin[i], Mul(t, r.direction[i]))
        y == Add(r.origin[j], Mul(t, r.direction[j]))
        normal == UnitAxis(f)
    IN  IF Lt(t, p_min) \/ Gt(t, p_max) THEN None
        ELSE IF Lt(x, self.r0) \/ Gt(x, self.r1) \/ Lt(y, self.s0) \/ Gt(y, self.s1) THEN None
        ELSE Some(HitRecord_new(t,
                                Div(Sub(x, self.r0), Sub(self.r1, self.r0)),
                                Div(Sub(y, self.s0), Sub(self.s1, self.s0)),
                                point_at_parameter(r, t),
                                normal, normal, self.material))

\* the thickness Plane::bounding_box gives the box on the fixed axis, 0.0001
PlaneEps == Q(1, 10000)

Plane_bounding_box(self) ==
    LET f == PlaneFixed(self.axis)
        i == PlaneFirst(self.axis)
        j == PlaneSecond(self.axis)
        minimum == [a \in 1..3 |-> IF a = f THEN Sub(self.k, PlaneEps)
                                   ELSE IF a = i THEN self.r0 ELSE self.s0]
        maximum == [a \in 1..3 |-> IF a = f THEN Add(self.k, PlaneEps)
                                   ELSE IF a = i THEN self.r1 ELSE self.s1]
    IN  Some(AABB_from(minimum, maximum))

---------------------------------------------------------------------------
(* rectangle.rs *)

Rectangle_new(plane, x0, x1, y0, y1, k, material) ==
    [kind |-> "rectangle", plane |-> plane, x0 |-> x0, x1 |-> x1, y0 |-> y0, y1 |-> y1,
     k |-> k, material |-> material]

\* Rectangle::hit: the match sets t, x, y and the normal, the tests follow it
Rectangle_hit(self, r, p_min, p_max) ==
    LET f == PlaneFixed(self.plane)
        i == PlaneFirst(self.plane)
        j == PlaneSecond(self.plane)
        t == Div(Sub(self.k, r.origin[f]), r.direction[f])
        x == Add(r.origin[i], Mul(t, r.direction[i]))
        y == Add(r.origin[j], Mul(t, r.direction[j]))
        normal == UnitAxis(f)
    IN  IF Lt(t, p_min) \/ Gt(t, p_max) THEN None
        ELSE IF Lt(x, self.x0) \/ Gt(x, self.x1) \/ Lt(y, self.y0) \/ Gt(y, self.y1) THEN None
        ELSE Some(HitRecord_new(t,
                                Div(Sub(x, self.x0), Sub(self.x1, self.x0)),
                                Div(Sub(y, self.y0), Sub(self.y1, self.y0)),
                                point_at_parameter(r, t),
                                normal, normal, self.material))

\* Rectangle::bounding_box: the same corners whatever self.plane is
Rectangle_bounding_box(self) ==
    Some(AABB_from(<<self.x0, self.y0, Sub(self.k, PlaneEps)>>,
                   <<self.x1, self.y1, Add(self.k, PlaneEps)>>))

---------------------------------------------------------------------------
(* triangle.rs *)

Triangle_new(v0, v1, v2, n0, n1, n2, material) ==
    [kind |-> "triangle", v0 |-> v0, v1 |-> v1, v2 |-> v2,
     n0 |-> n0, n1 |-> n1, n2 |-> n2, material |-> material]

Triangle_minimum(self) == VMin(self.v0, VMin(self.v1, self.v2))

Triangle_maximum(self) == VMax(self.v0, VMax(self.v1, self.v2))

\* Triangle::hit (Moller-Trumbore): position_min is the determinant threshold,
\* position_max is not read
\* the determinant Triangle::hit computes: edge1 . (direction x edge2)
Triangle_determinant(self, r) ==
    VDot(VSub(self.v1, self.v0), VCross(r.direction, VSub(self.v2, self.v0)))

Triangle_hit(self, r, p_min, p_max) ==
    LET edge1 == VSub(self.v1, self.v0)
        edge2 == VSub(self.v2, self.v0)
        pvec  == VCross(r.direction, edge2)
        determinant == Triangle_determinant(self, r)
        tvec  == VSub(r.origin, self.v0)
        u0    == VDot(tvec, pvec)
        qvec  == VCross(tvec, edge1)
        v0    == VDot(r.direction, qvec)
        t0    == VDot(edge2, qvec)
        inverse_determinant == Div(R(1), determinant)
        t == Mul(t0, inverse_determinant)
        u == Mul(u0, inverse_determinant)
        v == Mul(v0, inverse_determinant)
        w == Sub(Sub(R(1), u), v)
        point == VAdd(VAdd(VScale(u, self.v0), VScale(v, self.v1)), VScale(w, self.v2))
        geometric_normal == VNormalize(VCross(edge1, edge2))
        shading_normal ==
            VNormalize(VAdd(VAdd(VScale(w, self.n0), VScale(u, self.n1)), VScale(v, self.n2)))
    IN  IF Lt(determinant, p_min) THEN None
        ELSE IF Lt(u0, R(0)) \/ Gt(u0, determinant) THEN None
        ELSE IF Lt(v0, R(0)) \/ Gt(Add(u0, v0), determinant) THEN None
        ELSE Some(HitRecord_new(t, u, v, point, geometric_normal, shading_normal,
                                self.material))

Triangle_bounding_box(self) == Some(AABB_from(Triangle_minimum(self), Triangle_maximum(self)))

---------------------------------------------------------------------------
(* hitable.rs, volume.rs, world.rs, bvh.rs: the Hitable trait and its wrappers *)

FlipNormals_of(hitable) == [kind |-> "flip", hitable |-> hitable]

\* Volume::new: the material is Isotropic over the texture
Volume_new(density, boundary, texture) ==
    [kind |-> "volume", density |-> density, boundary |-> boundary,
     material |-> [kind |-> "isotropic", albedo |-> texture]]

\* a World used as a hitable (TriangleMesh holds one)
World_of(objs) == [kind |-> "world", objects |-> objs]

\* the step Volume::hit takes past the entry point to find the exit, 0.0001
VolumeStep == Q(1, 10000)

RECURSIVE Hit(_, _, _, _, _)
RECURSIVE BoundingBox(_, _, _)
RECURSIVE World_scan(_, _, _, _, _, _, _)

\* FlipNormals::hit: the inner hit with its normal negated
FlipNormals_hit(self, r, p_min, p_max, rnd) ==
    LET inner == Hit(self.hitable, r, p_min, p_max, rnd)
    IN  IF IsSome(inner)
        THEN Some([Unwrap(inner) EXCEPT !.geometric_normal = VNeg(@),
                                        !.shading_normal = VNeg(@)])
        ELSE None

\* Volume::hit.  rnd is -ln(rand::random::<f32>()), a value in (0, +inf]
Volume_hit(self, r, t_min, t_max, rnd) ==
    LET first == Hit(self.boundary, r, FMIN, FMAX, rnd)
    IN  IF ~IsSome(first) THEN None
        ELSE
        LET second == Hit(self.boundary, r, Add(Unwrap(first).parameter, VolumeStep), FMAX, rnd)
        IN  IF ~IsSome(second) THEN None
            ELSE
            LET p1 == IF Lt(Unwrap(first).parameter, t_min) THEN t_min
                      ELSE Unwrap(first).parameter
                p2 == IF Gt(Unwrap(second).parameter, t_max) THEN t_max
                      ELSE Unwrap(second).parameter
                norm == VLength(r.direction)
                distance_inside_boundary == Mul(Sub(p2, p1), norm)
                hit_distance == Mul(Neg(Div(R(1), self.density)), Neg(rnd))
                t == Add(p1, Div(hit_distance, norm))
            IN  IF Lt(p1, p2) /\ Lt(hit_distance, distance_inside_boundary)
                THEN Some(HitRecord_new(t, R(0), R(0), point_at_parameter(r, t),
                                        V(1, 0, 0), V(1, 0, 0), self.material))
                ELSE None

\* the loop of World::hit from object i on
World_scan(objs, i, r, p_min, closed_so_far, found, rnd) ==
    IF i > Len(objs) THEN found
    ELSE LET h == Hit(objs[i], r, p_min, closed_so_far, rnd)
         IN  IF IsSome(h)
             THEN World_scan(objs, i + 1, r, p_min, Unwrap(h).parameter, h, rnd)
             ELSE World_scan(objs, i + 1, r, p_min, closed_so_far, found, rnd)

\* World::hit: every object is tried against the range narrowed by the hits so far
World_hit(objs, r, p_min, p_max, rnd) == World_scan(objs, 1, r, p_min, p_max, None, rnd)

\* World::bounding_box: only the first object is asked, and the boxes joined are
\* the two boxes at the origin
World_bounding_box(objs, t0, t1) ==
    IF Len(objs) > 0
    THEN IF IsSome(BoundingBox(objs[1], t0, t1))
         THEN Some(surrounding_box(AABB_from(VZero, VZero), AABB_from(VZero, VZero)))
         ELSE None
    ELSE None

\* BVH::hit: both children are queried; two hits are compared by their points
BVH_hit(self, r, p_min, p_max, rnd) ==
    IF AABB_hit(self.bbox, r, p_min, p_max)
    THEN LET left_record  == Hit(self.left, r, p_min, p_max, rnd)
             right_record == Hit(self.right, r, p_min, p_max, rnd)
         IN  IF IsSome(left_record) /\ IsSome(right_record)
             THEN IF VLt(Unwrap(left_record).point, Unwrap(right_record).point)
                  THEN left_record ELSE right_record
             ELSE IF IsSome(left_record) THEN left_record
             ELSE IF IsSome(right_record) THEN right_record
             ELSE None
    ELSE None

\* dyn Hitable::hit
Hit(h, r, p_min, p_max, rnd) ==
    CASE h.kind = "sphere"   -> Sphere_hit(h, r, p_min, p_max)
      [] h.kind = "plane"    -> Plane_hit(h, r, p_min, p_max)
      [] h.kind = "rectangle" -> Rectangle_hit(h, r, p_min, p_max)
      [] h.kind = "triangle" -> Triangle_hit(h, r, p_min, p_max)
      [] h.kind = "flip"     -> FlipNormals_hit(h, r, p_min, p_max, rnd)
      [] h.kind = "volume"   -> Volume_hit(h, r, p_min, p_max, rnd)
      [] h.kind = "world"    -> World_hit(h.objects, r, p_min, p_max, rnd)
      [] h.kind = "bvh"      -> BVH_hit(h, r, p_min, p_max, rnd)

\* dyn Hitable::bounding_box
BoundingBox(h, t0, t1) ==
    CASE h.kind = "sphere"   -> Sphere_bounding_box(h, t0, t1)
      [] h.kind = "plane"    -> Plane_bounding_box(h)
      [] h.kind = "rectangle" -> Rectangle_bounding_box(h)
      [] h.kind = "triangle" -> Triangle_bounding_box(h)
      [] h.kind = "flip"     -> BoundingBox(h.hitable, t0, t1)
      [] h.kind = "volume"   -> BoundingBox(h.boundary, t0, t1)
      [] h.kind = "world"    -> World_bounding_box(h.objects, t0, t1)
      [] h.kind = "bvh"      -> Some(h.bbox)

---------------------------------------------------------------------------
(* bvh.rs: construction *)

Unbuilt == [kind |-> "unbuilt"]

\* a panic of the constructing thread (unwrap on None, index out of bounds)
Panic == [kind |-> "panic"]

\* BVH::new with a missing child box replaced by the empty box
BVH_new_lenient(left, right, start_time, end_time) ==
    LET lb == BoundingBox(left, start_time, end_time)
        rb == BoundingBox(right, start_time, end_time)
    IN  [kind |-> "bvh", left |-> left, right |-> right,
         bbox |-> surrounding_box(IF IsSome(lb) THEN Unwrap(lb) ELSE AABB_new,
                                  IF IsSome(rb) THEN Unwrap(rb) ELSE AABB_new)]

\* BVH::new with the box of the left child alone
BVH_new_left_box(left, right, start_time, end_time) ==
    LET lb == BoundingBox(left, start_time, end_time)
        rb == BoundingBox(right, start_time, end_time)
    IN  IF IsSome(lb) /\ IsSome(rb)
        THEN [kind |-> "bvh", left |-> left, right |-> right, bbox |-> Unwrap(lb)]
        ELSE Panic

\* BVH::new: both child boxes are unwrapped
BVH_new(left, right, start_time, end_time) ==
    LET lb == BoundingBox(left, start_time, end_time)
        rb == BoundingBox(right, start_time, end_time)
    IN  IF IsSome(lb) /\ IsSome(rb)
        THEN [kind |-> "bvh", left |-> left, right |-> right,
              bbox |-> surrounding_box(Unwrap(lb), Unwrap(rb))]
        ELSE Panic

\* the key of the sort: bounding_box(..).unwrap().minimum on the drawn axis
SortKey(h, axis, t0, t1) == Unwrap(BoundingBox(h, t0, t1)).minimum[axis + 1]

\* insert h after the elements whose key is not greater (the sort is stable)
RECURSIVE InsertSorted(_, _, _, _, _)
InsertSorted(sorted, h, axis, t0, t1) ==
    IF sorted = <<>> THEN <<h>>
    ELSE IF Lt(SortKey(h, axis, t0, t1), SortKey(Head(sorted), axis, t0, t1))
         THEN <<h>> \o sorted
         ELSE <<Head(sorted)>> \o InsertSorted(Tail(sorted), h, axis, t0, t1)

RECURSIVE SortByAxis(_, _, _, _)
SortByAxis(objs, axis, t0, t1) ==
    IF objs = <<>> THEN <<>>
    ELSE With(SortByAxis(SubSeq(objs, 1, Len(objs) - 1), axis, t0, t1),
              LAMBDA rest : InsertSorted(rest, objs[Len(objs)], axis, t0, t1))

\* the comparator unwraps the box of every element it is handed: with two or
\* more elements each one is compared at least once
SortPanics(objs, t0, t1) ==
    Len(objs) >= 2 /\ \E i \in 1..Len(objs) : ~IsSome(BoundingBox(objs[i], t0, t1))

\* the number of calls of BVH::from that one call on n objects makes
RECURSIVE Calls(_)
Calls(n) == IF n <= 2 THEN 1 ELSE 1 + Calls(n \div 2) + Calls(n - n \div 2)

\* BVH::from(world, start_time, end_time).  draws are the axes rng.gen_range(0, 3)
\* returns, in call order.  The result is the node (or Panic), world.objects as
\* the call leaves it, and the draws not yet used.
RECURSIVE BVH_from(_, _, _, _)
BVH_from(objs, draws, t0, t1) ==
    IF SortPanics(objs, t0, t1) \/ Len(objs) = 0
    THEN [node |-> Panic, objects |-> objs, draws |-> Tail(draws)]
    ELSE With(SortByAxis(objs, Head(draws), t0, t1), LAMBDA sorted :
        IF Len(sorted) = 1
        THEN [node |-> BVH_new(sorted[1], sorted[1], t0, t1),
              objects |-> sorted, draws |-> Tail(draws)]
        ELSE IF Len(sorted) = 2
        THEN [node |-> BVH_new(sorted[1], sorted[2], t0, t1),
              objects |-> sorted, draws |-> Tail(draws)]
        ELSE
        \* the two recursive results are bound to names local to the else
        \* block; the left and right handed to BVH::new are still objects[0]
        With(BVH_from(SubSeq(sorted, 1, Len(sorted) \div 2), Tail(draws), t0, t1),
             LAMBDA l :
        With(BVH_from(SubSeq(sorted, Len(sorted) \div 2 + 1, Len(sorted)), l.draws, t0, t1),
             LAMBDA rr :
            IF l.node = Panic
            THEN [node |-> Panic, objects |-> l.objects, draws |-> l.draws]
            ELSE IF rr.node = Panic
            THEN [node |-> Panic, objects |-> rr.objects, draws |-> rr.draws]
            ELSE [node |-> BVH_new(sorted[1], sorted[1], t0, t1),
                  objects |-> rr.objects, draws |-> rr.draws])))

---------------------------------------------------------------------------
(* texture.rs, materials.rs *)

ConstantTexture_new(r, g, b) == [kind |-> "constant", color |-> V(r, g, b)]

\* Texture::value of a ConstantTexture: the colour, whatever u, v and p
Texture_value(self, u, v, p) == self.color

Light_new(emit) == [kind |-> "light", emit |-> emit]

Diffuse_new(albedo) == [kind |-> "diffuse", albedo |-> albedo]

\* Light::scatter
Light_scatter(self, r, hit) == None

\* Light::emitted with the test on the side of the hit reversed
Light_emitted_back_face(self, r, hit) ==
    IF Gt(VDot(hit.shading_normal, r.direction), R(0))
    THEN Texture_value(self.emit, hit.u, hit.v, hit.point)
    ELSE VZero

\* Light::emitted
Light_emitted(self, r, hit) ==
    IF Lt(VDot(hit.shading_normal, r.direction), R(0))
    THEN Texture_value(self.emit, hit.u, hit.v, hit.point)
    ELSE VZero

---------------------------------------------------------------------------
(* Inputs *)

Builds == {"sse2", "scalar"}

Coords == -MaxCoord .. MaxCoord

\* ray directions before Ray::new normalizes them: along the axes, and two
\* oblique ones of integer length (one component zero)
Directions ==
    {V(1, 0, 0), V(-1, 0, 0), V(0, 1, 0), V(0, -1, 0), V(0, 0, 1), V(0, 0, -1),
     V(3, 4, 0), V(-4, 0, -3)}

Origins == {V(x, y, z) : x \in Coords, y \in Coords, z \in -1 .. 1}

\* query ranges: from zero, the integrator's (1e-2, f32::MAX), a bounded one,
\* and Volume's (f32::MIN, f32::MAX)
Ranges == {<<R(0), FMAX>>, <<Q(1, 100), FMAX>>, <<Q(3, 2), R(4)>>, <<FMIN, FMAX>>}

\* values of -ln(rand::random::<f32>()), which lies in (0, +inf]
LogDraws == {Q(1, 2), R(2), PosInf}

White == ConstantTexture_new(1, 1, 1)

UnitSphere(x, y, z, id) ==
    Sphere_new(V(x, y, z), V(x, y, z), R(1), Diffuse_new(ConstantTexture_new(id, 0, 0)),
               R(0), R(1))

\* a sphere of negative radius, the inner surface of a hollow glass ball
\* (scene.rs:147, scene.rs:167-172)
HollowSphere ==
    Sphere_new(V(0, 0, 0), V(0, 0, 0), R(-1), Diffuse_new(ConstantTexture_new(9, 0, 0)),
               R(0), R(1))

\* a sphere that moves along y during the exposure (scene.rs:257-258)
MovingSphere ==
    Sphere_new(V(0, 0, 0), V(0, 1, 0), R(1), Diffuse_new(ConstantTexture_new(8, 0, 0)),
               R(0), R(1))

\* a rectangle light facing +y
LightPlane ==
    Plane_new("XZ", R(-1), R(1), R(-1), R(1), R(1), Light_new(ConstantTexture_new(15, 15, 15)))

FlatTriangle ==
    Triangle_new(V(0, 0, 0), V(2, 0, 0), V(0, 2, 0), V(0, 0, 1), V(0, 0, 1), V(0, 0, 1),
                 Diffuse_new(ConstantTexture_new(7, 0, 0)))

\* a World with no object: the one hitable whose bounding_box is None
EmptyWorld == World_of(<<>>)

\* every square root the hit of h by r takes is rational
RECURSIVE Exact(_, _)
Exact(h, r) ==
    CASE h.kind = "sphere" -> HasExactSqrt(Sphere_discriminant(h, r))
      [] h.kind = "flip"   -> Exact(h.hitable, r)
      [] h.kind = "volume" -> Exact(h.boundary, r)
      [] h.kind = "world"  -> \A i \in 1 .. Len(h.objects) : Exact(h.objects[i], r)
      [] h.kind = "bvh"    -> Exact(h.left, r) /\ Exact(h.right, r)
      [] OTHER -> TRUE

\* all sequences over S of length at most n
RECURSIVE SeqsUpTo(_, _)
SeqsUpTo(S, n) ==
    IF n = 0 THEN {<<>>}
    ELSE LET shorter == SeqsUpTo(S, n - 1)
         IN  shorter \cup {Append(q, x) : q \in {t \in shorter : Len(t) = n - 1}, x \in S}

---------------------------------------------------------------------------
(* The values a variable holds while the part of the program it belongs to has
   not run *)

NoScene ==
    /\ scene = <<>>
    /\ objects = <<>>
    /\ bvh = Unbuilt

NoQuery ==
    /\ ray = None
    /\ position_min = R(0)
    /\ position_max = FMAX
    /\ record = None
    /\ brute = None

NoBoxes ==
    /\ boxes = <<>>
    /\ box_out = None

NoShading ==
    /\ emitted = None
    /\ scattered = None

NoBasis ==
    /\ frame_normal = None
    /\ uvw = None

NoRender ==
    /\ pixels = <<>>
    /\ writes = <<>>
    /\ taken = {}
    /\ workers = <<>>

NoPath ==
    /\ light_source = None
    /\ atmosphere = FALSE
    /\ bounces = 0
    /\ bounce = 0
    /\ color = VZero
    /\ throughput = VZero
    /\ queries = 0
    /\ roulette_draws = 0
    /\ roulette_draw = None

NoSampling ==
    /\ NoBasis
    /\ pdf = None
    /\ pdf_direction = None
    /\ pdf_value = None
    /\ rng_draws = <<>>
    /\ generated = None

---------------------------------------------------------------------------
(* SpecUnion: AABB::surrounding_box on three boxes *)

BoxCorners == {V(-MaxCoord, 0, 0), V(0, 1, -1), V(MaxCoord, -1, 1)}

\* every box AABB::from builds from two corners (also inverted ones), and the
\* empty box of AABB::new
UnionBoxes == {AABB_from(p, q) : p \in BoxCorners, q \in BoxCorners} \cup {AABB_new}

InitUnion ==
    /\ build \in Builds
    /\ boxes \in {<<a, b, c>> : a \in UnionBoxes, b \in UnionBoxes, c \in UnionBoxes}
    /\ box_out = None
    /\ pc = "start"
    /\ NoScene
    /\ NoQuery
    /\ NoShading
    /\ NoSampling
    /\ NoPath
    /\ NoRender

\* a.surrounding_box(b), b.surrounding_box(a) and the two bracketings over a, b, c
Join ==
    /\ pc = "start"
    /\ box_out' = Some([ab   |-> surrounding_box(boxes[1], boxes[2]),
                         ba   |-> surrounding_box(boxes[2], boxes[1]),
                         ab_c |-> surrounding_box(surrounding_box(boxes[1], boxes[2]), boxes[3]),
                         a_bc |-> surrounding_box(boxes[1], surrounding_box(boxes[2], boxes[3]))])
    /\ pc' = "joined"
    /\ UNCHANGED <<build, scene, objects, bvh, ray, position_min, position_max,
                   record, brute, boxes, emitted, scattered,
                   sampling, path, render>>

NextUnion == Join

SpecUnion == InitUnion /\ [][NextUnion]_vars

---------------------------------------------------------------------------
(* SpecSlab: AABB::hit of one box by a ray *)

SlabBoxes ==
    {AABB_from(V(0, 0, 0), V(MaxCoord, 1, 1)),
     AABB_from(V(-1, -1, -1), V(1, 1, 1)),
     AABB_from(V(-MaxCoord, 0, 0), V(-1, 2, 0))}

InitSlab ==
    /\ build \in Builds
    /\ boxes \in {<<a>> : a \in SlabBoxes}
    /\ box_out = None
    /\ pc = "start"
    /\ NoScene
    /\ NoQuery
    /\ NoShading
    /\ NoSampling
    /\ NoPath
    /\ NoRender

BoxHit ==
    /\ pc = "start"
    /\ \E o \in Origins, d \in Directions, rg \in Ranges :
          LET r == Ray_new(o, d, R(0))
          IN  /\ ray' = Some(r)
              /\ position_min' = rg[1]
              /\ position_max' = rg[2]
              /\ box_out' = Some(AABB_hit(boxes[1], r, rg[1], rg[2]))
    /\ pc' = "tested"
    /\ UNCHANGED <<build, scene, objects, bvh, record, brute, boxes, emitted, scattered,
                   sampling, path, render>>

NextSlab == BoxHit

SpecSlab == InitSlab /\ [][NextSlab]_vars

---------------------------------------------------------------------------
(* Properties of the boxes *)

\* p lies in the closed box b
InBox(p, b) == \A i \in 1 .. 3 : Le(b.minimum[i], p[i]) /\ Le(p[i], b.maximum[i])

GridPoints == {V(x, y, z) : x \in Coords, y \in Coords, z \in Coords}

\* ray parameters in steps of 1/12: every parameter at which a ray of the model
\* enters or leaves a box of the model is one of them
TGrid == {Q(k, 12) : k \in -(48 * MaxCoord) .. (48 * MaxCoord)}

\* C5: once the joins are computed, every point of a and every point of b lies
\* in a.surrounding_box(b); a.surrounding_box(b) = b.surrounding_box(a); and
\* joining (a, b) then c gives the same box as joining a with (b, c).
C5_SurroundingBox ==
    pc = "joined" =>
        LET o == Unwrap(box_out)
        IN  /\ \A p \in GridPoints :
                  (InBox(p, boxes[1]) \/ InBox(p, boxes[2])) => InBox(p, o.ab)
            /\ InBox(boxes[1].minimum, boxes[1]) => InBox(boxes[1].minimum, o.ab)
            /\ InBox(boxes[2].maximum, boxes[2]) => InBox(boxes[2].maximum, o.ab)
            /\ o.ab = o.ba
            /\ o.ab_c = o.a_bc

\* C5 witness: two boxes neither of which contains the other were joined, a
\* third box outside their join was added, and the join is a new box
C5_Witness ==
    /\ pc = "joined"
    /\ Unwrap(box_out).ab \notin {boxes[1], boxes[2]}
    /\ Unwrap(box_out).ab_c # Unwrap(box_out).ab
    /\ \E p \in GridPoints : InBox(p, boxes[1]) /\ ~InBox(p, boxes[2])
    /\ \E p \in GridPoints : InBox(p, boxes[2]) /\ ~InBox(p, boxes[1])

\* C3 as claimed: a box reported hit is crossed by the ray at some parameter
\* inside the query range [position_min, position_max]
C3_HitOnlyInsideRange ==
    (pc = "tested" /\ box_out = Some(TRUE)) =>
        \E t \in TGrid :
            /\ Le(position_min, t)
            /\ Le(t, position_max)
            /\ InBox(point_at_parameter(Unwrap(ray), t), boxes[1])

\* the direction components that are exactly zero
ZeroAxes(r) == {i \in 1 .. 3 : r.direction[i] = R(0)}

\* the line of r meets the box b on the axes along which r moves
LineCrosses(r, b) ==
    \E t \in TGrid : \A i \in (1 .. 3) \ ZeroAxes(r) :
        LET x == Add(r.origin[i], Mul(t, r.direction[i]))
        IN  Le(b.minimum[i], x) /\ Le(x, b.maximum[i])

\* C4 as claimed: a ray with a zero direction component whose origin lies in the
\* closed slab of the box on every zero axis, and whose line crosses the box on
\* the other axes, is reported hit
C4_AxisAlignedNotRejected ==
    (/\ pc = "tested"
     /\ ZeroAxes(Unwrap(ray)) # {}
     /\ \A i \in ZeroAxes(Unwrap(ray)) :
            /\ Le(boxes[1].minimum[i], Unwrap(ray).origin[i])
            /\ Le(Unwrap(ray).origin[i], boxes[1].maximum[i])
     /\ LineCrosses(Unwrap(ray), boxes[1]))
    => box_out = Some(TRUE)

---------------------------------------------------------------------------
(* SpecBuild: BVH construction from a primitive list *)

\* the time window every scene passes to the construction (scene.rs:71)
Time0 == R(0)

Time1 == R(1)

BuildObjects ==
    {UnitSphere(-MaxCoord, 0, 0, 1), MovingSphere, HollowSphere, EmptyWorld}

InitBuild ==
    /\ build \in Builds
    /\ scene \in SeqsUpTo(BuildObjects, MaxObjects)
    /\ objects = scene
    /\ bvh = Unbuilt
    /\ pc = "start"
    /\ NoQuery
    /\ NoBoxes
    /\ NoShading
    /\ NoSampling
    /\ NoPath
    /\ NoRender

\* BVH::from(&mut world, 0.0, 1.0) with the axes the generator draws
Construct ==
    /\ pc = "start"
    /\ \E draws \in [1 .. Calls(Len(objects)) -> 0 .. 2] :
          \E out \in {BVH_from(objects, draws, Time0, Time1)} :
              /\ bvh' = out.node
              /\ objects' = out.objects
              /\ pc' = IF out.node = Panic THEN "panicked" ELSE "built"
    /\ UNCHANGED <<build, scene, ray, position_min, position_max, record, brute,
                   boxes, box_out, emitted, scattered,
                   sampling, path, render>>

NextBuild == Construct

SpecBuild == InitBuild /\ [][NextBuild]_vars

\* minimum <= maximum on each of the three axes
ValidBox(b) == \A i \in 1 .. 3 : Le(b.minimum[i], b.maximum[i])

\* the list is empty or holds a primitive without a bounding box
Malformed(objs) ==
    \/ objs = <<>>
    \/ \E i \in 1 .. Len(objs) : ~IsSome(BoundingBox(objs[i], Time0, Time1))

\* C6 as claimed: the box of every node the construction returns, and the box
\* of every primitive under it, has minimum <= maximum on each axis
C6_BoxesOrdered ==
    pc = "built" =>
        /\ ValidBox(bvh.bbox)
        /\ ValidBox(Unwrap(BoundingBox(bvh.left, Time0, Time1)))
        /\ ValidBox(Unwrap(BoundingBox(bvh.right, Time0, Time1)))

\* C7: once the construction has run on an empty list, or on a list holding a
\* primitive whose bounding_box is None, it has panicked and returned no node
C7_MalformedInputPanics ==
    (pc # "start" /\ Malformed(scene)) => (pc = "panicked" /\ bvh = Panic)

\* C7 witness: the construction panicked on a list of three primitives, one of
\* them without a bounding box
C7_Witness ==
    /\ pc = "panicked"
    /\ Len(scene) = 3
    /\ \E i \in 1 .. 3 : ~IsSome(BoundingBox(scene[i], Time0, Time1))

\* the primitives at the leaves of a tree
RECURSIVE Leaves(_)
Leaves(h) == IF h.kind = "bvh" THEN Leaves(h.left) \cup Leaves(h.right) ELSE {h}

\* the elements of a list
Elements(objs) == {objs[i] : i \in 1 .. Len(objs)}

\* node is BVH::from of the list objs for some axes the generator can draw
BuiltFrom(node, objs) ==
    \E draws \in [1 .. Calls(Len(objs)) -> 0 .. 2] :
        node = BVH_from(objs, draws, Time0, Time1).node

\* C16 as claimed: with the list sorted along the drawn axis, the node returned
\* for one primitive has that primitive as both children, for two primitives
\* the first and the second, for more than two the BVH of the first half on the
\* left and the BVH of the remaining half on the right; every primitive of the
\* list is a leaf of the tree
C16_TreeHoldsEveryPrimitive ==
    pc = "built" =>
        /\ \E axis \in 0 .. 2 :
              LET sorted == SortByAxis(scene, axis, Time0, Time1)
                  n == Len(sorted)
              IN  /\ n = 1 => bvh.left = sorted[1] /\ bvh.right = sorted[1]
                  /\ n = 2 => bvh.left = sorted[1] /\ bvh.right = sorted[2]
                  /\ n > 2 =>
                        /\ BuiltFrom(bvh.left, SubSeq(sorted, 1, n \div 2))
                        /\ BuiltFrom(bvh.right, SubSeq(sorted, n \div 2 + 1, n))
        /\ Leaves(bvh) = Elements(scene)

\* the box around the boxes of all the primitives of a list
RECURSIVE UnionBox(_)
UnionBox(objs) ==
    IF Len(objs) = 1 THEN Unwrap(BoundingBox(objs[1], Time0, Time1))
    ELSE surrounding_box(UnionBox(SubSeq(objs, 1, Len(objs) - 1)),
                         Unwrap(BoundingBox(objs[Len(objs)], Time0, Time1)))

\* the trees BVH::from can return for a list, over the axes the generator draws
TreesOf(objs) ==
    {BVH_from(objs, draws, Time0, Time1).node :
         draws \in [1 .. Calls(Len(objs)) -> 0 .. 2]}

\* C17 as claimed: the axis AABB::longest_axis returns for the box around all
\* the primitives is one of greatest extent, the list is split along that axis,
\* and every construction from the same list returns the same tree
C17_SplitsAlongLongestAxis ==
    pc = "built" =>
        LET union == UnionBox(scene)
            diff == VSub(union.maximum, union.minimum)
            axis == AABB_longest_axis(union)
        IN  /\ \A i \in 1 .. 3 : Le(diff[i], diff[axis + 1])
            /\ \E draws \in [1 .. Calls(Len(scene)) -> 0 .. 2] :
                  /\ draws[1] = axis
                  /\ bvh = BVH_from(scene, draws, Time0, Time1).node
            /\ TreesOf(scene) = {bvh}

---------------------------------------------------------------------------
(* Spec: a BVH is built from a list of spheres and then queried, next to the
   World::hit scan of the same list *)

SceneObjects ==
    {UnitSphere(-MaxCoord - 1, 0, 0, 1), UnitSphere(0, 0, 0, 2),
     UnitSphere(MaxCoord + 1, 0, 0, 3)}

QueryOrigins == {V(x, y, 0) : x \in Coords, y \in -1 .. 1}

QueryRanges == {<<Q(1, 100), FMAX>>, <<Q(3, 2), R(4)>>}

Init ==
    /\ build \in Builds
    /\ scene \in SeqsUpTo(SceneObjects, MaxObjects) \ {<<>>}
    /\ objects = scene
    /\ bvh = Unbuilt
    /\ pc = "start"
    /\ NoQuery
    /\ NoBoxes
    /\ NoShading
    /\ NoSampling
    /\ NoPath
    /\ NoRender

\* one ray is traced: bvh.hit(ray, t_min, t_max), and World::hit over the list
\* the BVH was built from
Query ==
    /\ pc = "built"
    /\ \E o \in QueryOrigins, d \in Directions, range \in QueryRanges :
          \E r \in {Ray_new(o, d, R(0))} :
              /\ Exact(World_of(scene), r)
              /\ ray' = Some(r)
              /\ position_min' = range[1]
              /\ position_max' = range[2]
              /\ record' = Hit(bvh, r, range[1], range[2], PosInf)
              /\ brute' = Hit(World_of(scene), r, range[1], range[2], PosInf)
    /\ pc' = "queried"
    /\ UNCHANGED <<build, scene, objects, bvh, boxes, box_out, emitted, scattered,
                   sampling, path, render>>

Next == Construct \/ Query

Spec == Init /\ [][Next]_vars

\* C1 as claimed: the BVH built from a non-empty list answers every query as the
\* scan of World::hit does: both miss, or both hit the same primitive at the same t
C1_BVHMatchesWorld ==
    pc = "queried" =>
        /\ IsSome(record) <=> IsSome(brute)
        /\ IsSome(record) /\ IsSome(brute) =>
              /\ Unwrap(record).parameter = Unwrap(brute).parameter
              /\ Unwrap(record).material = Unwrap(brute).material

---------------------------------------------------------------------------
(* SpecNode: BVH::new joins two children, primitives or nodes, and the node is
   then asked for hits and for its bounding box *)

\* the times a ray or a box is asked at
Times == {R(0), R(1)}

NodePrimitives == {UnitSphere(-MaxCoord, 0, 0, 1), MovingSphere, HollowSphere}

\* a child is a primitive or a node over two primitives
NodeChildren ==
    NodePrimitives \cup
        {BVH_new(a, HollowSphere, Time0, Time1) : a \in NodePrimitives}

\* rays along the axes
NodeDirections == {d \in Directions : Cardinality({i \in 1 .. 3 : d[i] # R(0)}) = 1}

InitNode ==
    /\ build \in Builds
    /\ \E left \in NodeChildren, right \in NodeChildren : scene = <<left, right>>
    /\ objects = scene
    /\ bvh = Unbuilt
    /\ pc = "start"
    /\ NoQuery
    /\ NoBoxes
    /\ NoShading
    /\ NoSampling
    /\ NoPath
    /\ NoRender

\* BVH::new(left, right, 0.0, 1.0)
NewNode ==
    /\ pc = "start"
    /\ bvh' = BVH_new(scene[1], scene[2], Time0, Time1)
    /\ pc' = "built"
    /\ UNCHANGED <<build, scene, objects, ray, position_min, position_max, record,
                   brute, boxes, box_out, emitted, scattered,
                   sampling, path, render>>

\* bvh.hit(ray, 0.01, f32::MAX): &self, the node is only read
HitNode ==
    /\ pc = "built"
    /\ ray = None
    /\ \E o \in QueryOrigins, d \in NodeDirections :
          \E r \in {Ray_new(o, d, R(0))} :
              /\ Exact(bvh, r)
              /\ ray' = Some(r)
              /\ position_min' = Q(1, 100)
              /\ position_max' = FMAX
              /\ record' = Hit(bvh, r, Q(1, 100), FMAX, PosInf)
    /\ UNCHANGED <<build, scene, objects, bvh, brute, boxes, box_out, emitted,
                   scattered, pc, sampling, path, render>>

\* bvh.bounding_box(t0, t1): &self, a clone of the stored box
BoundNode ==
    /\ pc = "built"
    /\ box_out = None
    /\ \E t0 \in Times, t1 \in Times : box_out' = BoundingBox(bvh, t0, t1)
    /\ UNCHANGED <<build, scene, objects, bvh, ray, position_min, position_max,
                   record, brute, boxes, emitted, scattered, pc,
                   sampling, path, render>>

NextNode == NewNode \/ HitNode \/ BoundNode

SpecNode == InitNode /\ [][NextNode]_vars

\* inner lies inside outer on each of the three axes
Contains(outer, inner) ==
    \A i \in 1 .. 3 : Le(outer.minimum[i], inner.minimum[i])
                      /\ Le(inner.maximum[i], outer.maximum[i])

\* the stored box of node h, and of every node below it, is the surrounding box
\* of the boxes its two children have over the construction's time window
RECURSIVE BoxesAreUnions(_)
BoxesAreUnions(h) ==
    h.kind = "bvh" =>
        /\ h.bbox = surrounding_box(Unwrap(BoundingBox(h.left, Time0, Time1)),
                                    Unwrap(BoundingBox(h.right, Time0, Time1)))
        /\ BoxesAreUnions(h.left)
        /\ BoxesAreUnions(h.right)

\* the stored box of node h, and of every node below it, contains the box of
\* each primitive under that node
RECURSIVE BoxesContainLeaves(_)
BoxesContainLeaves(h) ==
    h.kind = "bvh" =>
        /\ \A p \in Leaves(h) :
              Contains(h.bbox, Unwrap(BoundingBox(p, Time0, Time1)))
        /\ BoxesContainLeaves(h.left)
        /\ BoxesContainLeaves(h.right)

\* C18: the box stored in every node is the surrounding box of its two
\* children's boxes as of the construction and contains the box of every
\* primitive below the node; bounding_box returns that box, and neither hit nor
\* bounding_box changes the node
C18_NodeBoxIsChildrenUnion ==
    /\ [](pc = "built" =>
             /\ BoxesAreUnions(bvh)
             /\ BoxesContainLeaves(bvh)
             /\ box_out \in {None, Some(bvh.bbox)})
    /\ [][pc = "built" => bvh' = bvh]_vars

\* C18 witness: a node over two nodes with different primitives has been hit by
\* a ray and asked for its bounding box
C18_Witness ==
    /\ pc = "built"
    /\ bvh.left.kind = "bvh"
    /\ bvh.right.kind = "bvh"
    /\ Cardinality(Leaves(bvh)) = 3
    /\ IsSome(record)
    /\ IsSome(box_out)

\* the hit a node is to return from the hits of its two children: the one of
\* smaller ray parameter, the only one, or none
CloserOf(left_record, right_record) ==
    IF IsSome(left_record) /\ IsSome(right_record)
    THEN {rec \in {left_record, right_record} :
              /\ Le(Unwrap(rec).parameter, Unwrap(left_record).parameter)
              /\ Le(Unwrap(rec).parameter, Unwrap(right_record).parameter)}
    ELSE IF IsSome(left_record) THEN {left_record}
    ELSE IF IsSome(right_record) THEN {right_record}
    ELSE {None}

\* C19 as claimed: a node whose box the ray misses returns None; otherwise it
\* returns, of the hits of its two children, the one with the smaller ray
\* parameter when both hit, the single hit when one child hits, and None when
\* neither hits
C19_CloserChildHitWins ==
    (pc = "built" /\ IsSome(ray)) =>
        IF AABB_hit(bvh.bbox, Unwrap(ray), position_min, position_max)
        THEN record \in CloserOf(Hit(bvh.left, Unwrap(ray), position_min, position_max, PosInf),
                                 Hit(bvh.right, Unwrap(ray), position_min, position_max, PosInf))
        ELSE record = None

---------------------------------------------------------------------------
(* SpecHit: one hitable is queried with one ray, and a hit on a Light is shaded *)

HitObjects ==
    {UnitSphere(0, 0, 0, 1), HollowSphere, MovingSphere, FlatTriangle, LightPlane,
     FlipNormals_of(LightPlane), Volume_new(R(1), UnitSphere(0, 0, 0, 1), White),
     BVH_new(UnitSphere(-1, 0, 0, 1), UnitSphere(1, 0, 0, 2), Time0, Time1)}

InitHit ==
    /\ build \in Builds
    /\ \E h \in HitObjects : scene = <<h>>
    /\ objects = scene
    /\ bvh = Unbuilt
    /\ pc = "ready"
    /\ NoQuery
    /\ NoBoxes
    /\ NoShading
    /\ NoSampling
    /\ NoPath
    /\ NoRender

\* the random draw is taken by Volume::hit only
DrawsFor(h) == IF h.kind = "volume" THEN LogDraws ELSE {PosInf}

\* scene[1].hit(ray, t_min, t_max)
HitObject ==
    /\ pc = "ready"
    /\ \E o \in Origins, d \in Directions, time \in Times, range \in Ranges,
          rnd \in DrawsFor(scene[1]) :
          \E r \in {Ray_new(o, d, time)} :
              /\ Exact(scene[1], r)
              /\ ray' = Some(r)
              /\ position_min' = range[1]
              /\ position_max' = range[2]
              /\ record' = Hit(scene[1], r, range[1], range[2], rnd)
    /\ pc' = "hit"
    /\ UNCHANGED <<build, scene, objects, bvh, brute, boxes, box_out, emitted, scattered,
                   sampling, path, render>>

\* the material of a record that hit a Light is asked for scatter and emitted
ShadeLight ==
    /\ pc = "hit"
    /\ IsSome(record)
    /\ Unwrap(record).material.kind = "light"
    /\ scattered' = Light_scatter(Unwrap(record).material, Unwrap(ray), Unwrap(record))
    /\ emitted' = Some(Light_emitted(Unwrap(record).material, Unwrap(ray), Unwrap(record)))
    /\ pc' = "shaded"
    /\ UNCHANGED <<build, scene, objects, bvh, ray, position_min, position_max, record,
                   brute, boxes, box_out,
                   sampling, path, render>>

NextHit == HitObject \/ ShadeLight

SpecHit == InitHit /\ [][NextHit]_vars

\* C29 as claimed: the point of a record Triangle::hit returns is
\* ray.origin + t * ray.direction for the record's t, and it is the combination
\* of the vertices with the weights of the shading normal: 1 - u - v on v0, u
\* on v1 and v on v2
C29_TrianglePointOnRay ==
    (pc = "hit" /\ scene[1].kind = "triangle" /\ IsSome(record)) =>
        LET h == Unwrap(record)
            tri == scene[1]
            w == Sub(Sub(R(1), h.u), h.v)
        IN  /\ h.point = point_at_parameter(Unwrap(ray), h.parameter)
            /\ h.point = VAdd(VAdd(VScale(w, tri.v0), VScale(h.u, tri.v1)),
                              VScale(h.v, tri.v2))
            /\ h.shading_normal =
                  VNormalize(VAdd(VAdd(VScale(w, tri.n0), VScale(h.u, tri.n1)),
                                  VScale(h.v, tri.n2)))

---------------------------------------------------------------------------
(* Properties of the hits *)

\* C2 as claimed: whatever hitable is queried, a record it returns carries a ray
\* parameter t with t_min <= t <= t_max
C2_ParameterInsideRange ==
    (pc = "hit" /\ IsSome(record)) =>
        /\ Le(position_min, Unwrap(record).parameter)
        /\ Le(Unwrap(record).parameter, position_max)

\* the side of the surface the ray arrives on: dot(normal, ray.direction)
Facing == VDot(Unwrap(record).shading_normal, Unwrap(ray).direction)

\* C8: for a hit on a Light, scatter returns None, and emitted returns the colour
\* of the light's texture when dot(normal, ray.direction) < 0 and black otherwise
C8_LightEmitsOnFrontOnly ==
    pc = "shaded" =>
        /\ scattered = None
        /\ Lt(Facing, R(0)) => emitted = Some(Unwrap(record).material.emit.color)
        /\ ~Lt(Facing, R(0)) => emitted = Some(VZero)

\* C8 witness: a light was hit on the side its normal points away from, and
\* shading returned black and no scattered ray
C8_Witness ==
    /\ pc = "shaded"
    /\ Gt(Facing, R(0))
    /\ emitted = Some(VZero)
    /\ Unwrap(record).material.emit.color # VZero
    /\ scattered = None

\* t solves the ray-sphere quadratic: the point of the ray at t lies at distance
\* |radius| from the centre the sphere has at the time of the ray
IsRoot(sphere, r, t) ==
    LET offset == VSub(point_at_parameter(r, t), Sphere_center(sphere, r.time))
    IN  VDot(offset, offset) = Mul(sphere.radius, sphere.radius)

\* a root the query accepts: in front of the origin and inside (t_min, t_max)
Admissible(sphere, r, t) ==
    /\ Gt(t, R(0))
    /\ Gt(t, position_min)
    /\ Lt(t, position_max)
    /\ IsRoot(sphere, r, t)

\* the positive roots of the queries are multiples of 1/5 (the oblique
\* directions have components in fifths) no larger than the distance from the
\* origin to the centre plus the radius
RootGrid == {Q(k, 5) : k \in 1 .. 5 * (2 * MaxCoord + 1)}

\* C9: Sphere::hit returns the smallest root that is positive and inside the
\* query range (so the larger root only when the smaller is not admissible),
\* never a root t <= 0, and None when no root qualifies or the discriminant is
\* negative
C9_SmallestAdmissibleRoot ==
    (pc = "hit" /\ scene[1].kind = "sphere") =>
        IF Lt(Sphere_discriminant(scene[1], Unwrap(ray)), R(0))
        THEN record = None
        ELSE \A admissible \in {{t \in RootGrid : Admissible(scene[1], Unwrap(ray), t)}} :
                /\ record = None <=> admissible = {}
                /\ IsSome(record) =>
                      /\ Unwrap(record).parameter \in admissible
                      /\ Gt(Unwrap(record).parameter, R(0))
                      /\ \A t \in admissible : Le(Unwrap(record).parameter, t)

\* C9 witness: the sphere has two roots in front of the origin, the smaller one
\* is not admissible for the query, and the hit returned is the larger one
C9_Witness ==
    /\ pc = "hit"
    /\ scene[1].kind = "sphere"
    /\ IsSome(record)
    /\ \E t \in RootGrid :
          /\ Lt(t, Unwrap(record).parameter)
          /\ IsRoot(scene[1], Unwrap(ray), t)
          /\ ~Admissible(scene[1], Unwrap(ray), t)

\* C10 as claimed: Triangle::hit returns None when the determinant is zero (the
\* ray is parallel to the plane of the triangle), and every hit it returns has
\* 0 <= u, 0 <= v and u + v <= 1
C10_TriangleRejects ==
    (pc = "hit" /\ scene[1].kind = "triangle") =>
        /\ Triangle_determinant(scene[1], Unwrap(ray)) = R(0) => record = None
        /\ IsSome(record) =>
              /\ Le(R(0), Unwrap(record).u)
              /\ Le(R(0), Unwrap(record).v)
              /\ Le(Add(Unwrap(record).u, Unwrap(record).v), R(1))

---------------------------------------------------------------------------
(* SpecRect: an axis-aligned rectangle is given its bounding box and queried *)

Orientations == {"XY", "YZ", "XZ"}

\* the rectangles of both implementations, one per orientation: the first
\* in-plane axis spans [-1, 1], the second [0, 2], the fixed coordinate is 1
RectObjects ==
    {Plane_new(a, R(-1), R(1), R(0), R(2), R(1), Diffuse_new(White)) : a \in Orientations}
    \cup {Rectangle_new(a, R(-1), R(1), R(0), R(2), R(1), Diffuse_new(White)) :
              a \in Orientations}

InitRect ==
    /\ build \in Builds
    /\ \E h \in RectObjects : scene = <<h>>
    /\ objects = scene
    /\ bvh = Unbuilt
    /\ pc = "ready"
    /\ NoQuery
    /\ NoBoxes
    /\ NoShading
    /\ NoSampling
    /\ NoPath
    /\ NoRender

\* scene[1].bounding_box(0.0, 1.0), then scene[1].hit(ray, t_min, t_max)
BoundAndHit ==
    /\ pc = "ready"
    /\ \E o \in Origins, d \in Directions, range \in Ranges :
          \E r \in {Ray_new(o, d, R(0))} :
              /\ ray' = Some(r)
              /\ position_min' = range[1]
              /\ position_max' = range[2]
              /\ record' = Hit(scene[1], r, range[1], range[2], PosInf)
    /\ boxes' = scene
    /\ box_out' = BoundingBox(scene[1], Time0, Time1)
    /\ pc' = "bounded"
    /\ UNCHANGED <<build, scene, objects, bvh, brute, emitted, scattered,
                   sampling, path, render>>

NextRect == BoundAndHit

SpecRect == InitRect /\ [][NextRect]_vars

\* the orientation of a rectangle of either implementation
OrientationOf(h) == IF h.kind = "plane" THEN h.axis ELSE h.plane

\* the extent <<low, high>> the rectangle h has on axis a: its in-plane extent
\* on the two in-plane axes, [k - 0.0001, k + 0.0001] on the fixed axis
ExtentOf(h, a) ==
    LET o == OrientationOf(h)
        first  == IF h.kind = "plane" THEN <<h.r0, h.r1>> ELSE <<h.x0, h.x1>>
        second == IF h.kind = "plane" THEN <<h.s0, h.s1>> ELSE <<h.y0, h.y1>>
    IN  IF a = PlaneFixed(o) THEN <<Sub(h.k, PlaneEps), Add(h.k, PlaneEps)>>
        ELSE IF a = PlaneFirst(o) THEN first ELSE second

\* C11 as claimed: in each orientation the box spans the in-plane extent on the
\* two in-plane axes and [k - 0.0001, k + 0.0001] on the fixed axis, so it is not
\* flat on the fixed axis and contains the point of every hit reported
C11_RectangleBox ==
    pc = "bounded" =>
        /\ IsSome(box_out)
        /\ \A a \in 1 .. 3 :
              /\ Unwrap(box_out).minimum[a] = ExtentOf(scene[1], a)[1]
              /\ Unwrap(box_out).maximum[a] = ExtentOf(scene[1], a)[2]
        /\ Lt(Unwrap(box_out).minimum[PlaneFixed(OrientationOf(scene[1]))],
              Unwrap(box_out).maximum[PlaneFixed(OrientationOf(scene[1]))])
        /\ IsSome(record) => InBox(Unwrap(record).point, Unwrap(box_out))

---------------------------------------------------------------------------
(* basis.rs *)

\* 1.0f32.copysign(z): the sign bit of z; the model does not keep the sign bit
\* of a zero or of a NaN, so zero_sign says which one z has in that case
Copysign(z, zero_sign) ==
    IF IsNaN(z) \/ z = R(0) THEN R(zero_sign)
    ELSE IF Lt(z, R(0)) THEN R(-1) ELSE R(1)

\* the frame of Frisvad's method, which the listing of Duff et al. replaces:
\* no sign, a = 1 / (1 + w.z)
OrthonormalBase_new_frisvad(normal, zero_sign) ==
    LET w == VNormalize(normal)
        a == Div(R(1), Add(R(1), w[3]))
        b == Neg(Mul(Mul(w[1], w[2]), a))
        u == <<Sub(R(1), Mul(Mul(w[1], w[1]), a)), b, Neg(w[1])>>
        v == <<b, Sub(R(1), Mul(Mul(w[2], w[2]), a)), Neg(w[2])>>
    IN  [axis |-> <<u, v, w>>]

\* OrthonormalBase::new
OrthonormalBase_new(normal, zero_sign) ==
    With(VNormalize(normal), LAMBDA w :
    With(Copysign(w[3], zero_sign), LAMBDA sign :
    With(Div(R(-1), Add(sign, w[3])), LAMBDA a :
    With(Mul(Mul(w[1], w[2]), a), LAMBDA b :
        [axis |-> << <<Add(R(1), Mul(Mul(Mul(sign, w[1]), w[1]), a)),
                       Mul(sign, b),
                       Mul(Neg(sign), w[1])>>,
                     <<b, Add(sign, Mul(Mul(w[2], w[2]), a)), Neg(w[2])>>,
                     w >>]))))

OrthonormalBase_u(self) == self.axis[1]

OrthonormalBase_v(self) == self.axis[2]

OrthonormalBase_w(self) == self.axis[3]

\* OrthonormalBase::local
OrthonormalBase_local(self, a) ==
    VAdd(VAdd(VScale(a[1], OrthonormalBase_u(self)), VScale(a[2], OrthonormalBase_v(self))),
         VScale(a[3], OrthonormalBase_w(self)))

---------------------------------------------------------------------------
(* SpecBasis: an orthonormal frame is built around a shading normal *)

\* integer vectors of integer length: <<x, y, z, length>>
Quadruples ==
    {<<1, 0, 0, 1>>, <<3, 4, 0, 5>>, <<1, 2, 2, 3>>, <<2, 3, 6, 7>>, <<1, 4, 8, 9>>,
     <<3, 4, 12, 13>>, <<0, 9, 40, 41>>}

Permutations3 ==
    {<<1, 2, 3>>, <<1, 3, 2>>, <<2, 1, 3>>, <<2, 3, 1>>, <<3, 1, 2>>, <<3, 2, 1>>}

\* unit vectors with rational components, in every octant and along every axis;
\* z is -1 in one of them and -12/13 or -40/41 in others
UnitNormals ==
    {<<Q(sx * t[p[1]], t[4]), Q(sy * t[p[2]], t[4]), Q(sz * t[p[3]], t[4])>> :
         t \in Quadruples, p \in Permutations3,
         sx \in {-1, 1}, sy \in {-1, 1}, sz \in {-1, 1}}

\* the shading normals of hit records: unit normals, and normals left unnormalized
FrameNormals == UnitNormals \cup Directions

InitBasis ==
    /\ build \in Builds
    /\ NoScene
    /\ NoQuery
    /\ NoBoxes
    /\ NoShading
    /\ frame_normal \in {Some(n) : n \in FrameNormals}
    /\ uvw = None
    /\ pdf = None
    /\ pdf_direction = None
    /\ pdf_value = None
    /\ rng_draws = <<>>
    /\ generated = None
    /\ NoPath
    /\ NoRender
    /\ pc = "ready"

\* OrthonormalBase::new(&normal)
NewBasis ==
    /\ pc = "ready"
    /\ \E zero_sign \in {-1, 1} :
          uvw' = Some(OrthonormalBase_new(Unwrap(frame_normal), zero_sign))
    /\ pc' = "framed"
    /\ UNCHANGED <<build, scene, objects, bvh, ray, position_min, position_max, record,
                   brute, boxes, box_out, emitted, scattered, frame_normal, pdf,
                   pdf_direction, pdf_value, rng_draws, generated, path, render>>

NextBasis == NewBasis

SpecBasis == InitBasis /\ [][NextBasis]_vars

\* entry (i, j) of M * transpose(M), where the columns of M are the three axes
GramEntry(axis, i, j) ==
    Add(Add(Mul(axis[1][i], axis[1][j]), Mul(axis[2][i], axis[2][j])),
        Mul(axis[3][i], axis[3][j]))

IsUnit(n) == VDot(n, n) = R(1)

\* C15: for a unit normal n the frame has w = n, its axes are pairwise
\* orthogonal and of unit length, and the matrix of the axes times its
\* transpose is the identity, also when n.z is -1 or close to it
C15_OrthonormalFrame ==
    (pc = "framed" /\ IsUnit(Unwrap(frame_normal))) =>
        LET axis == Unwrap(uvw).axis
        IN  /\ axis[3] = Unwrap(frame_normal)
            /\ \A i \in 1 .. 3, j \in 1 .. 3 :
                  /\ VDot(axis[i], axis[j]) = IF i = j THEN R(1) ELSE R(0)
                  /\ GramEntry(axis, i, j) = IF i = j THEN R(1) ELSE R(0)

\* a frame was built around a unit normal whose z is close to -1 without being -1
C15_Witness ==
    /\ pc = "framed"
    /\ IsUnit(Unwrap(frame_normal))
    /\ Lt(Unwrap(frame_normal)[3], Q(-9, 10))
    /\ Unwrap(frame_normal)[3] # R(-1)

---------------------------------------------------------------------------
(* pdf.rs, and the sampling methods of plane.rs *)

\* std::f32::consts::PI; the rational 355/113 stands for it
PI == Q(355, 113)

\* cos and sin of 2 * PI * r1 for the draws r1 that make a whole number of
\* quarter turns
CosTurns(r1) ==
    CASE r1 = R(0) -> R(1) [] r1 = Q(1, 4) -> R(0) [] r1 = Q(1, 2) -> R(-1)
      [] r1 = Q(3, 4) -> R(0)

SinTurns(r1) ==
    CASE r1 = R(0) -> R(0) [] r1 = Q(1, 4) -> R(1) [] r1 = Q(1, 2) -> R(0)
      [] r1 = Q(3, 4) -> R(-1)

random_cosine_direction(r1, r2) ==
    LET z == Sqrt(Sub(R(1), r2))
        x == Mul(Mul(CosTurns(r1), R(2)), Sqrt(r2))
        y == Mul(Mul(SinTurns(r1), R(2)), Sqrt(r2))
    IN  <<x, y, z>>

CosinePDF_new(normal, zero_sign) == [uvw |-> OrthonormalBase_new(normal, zero_sign)]

CosinePDF_value(self, d) ==
    With(VDot(VNormalize(d), OrthonormalBase_w(self.uvw)), LAMBDA cosine :
        IF Gt(cosine, R(0)) THEN Div(cosine, PI) ELSE R(0))

CosinePDF_generate(self, r1, r2) ==
    OrthonormalBase_local(self.uvw, random_cosine_direction(r1, r2))

\* Plane::pdf_value
Plane_pdf_value(self, origin, d) ==
    With(Plane_hit(self, Ray_new(origin, d, R(0)), Q(1, 1000), FMAX), LAMBDA hit :
        IF IsSome(hit)
        THEN LET area == Mul(Sub(self.r1, self.r0), Sub(self.s1, self.s0))
                 distance_squared ==
                     Mul(Mul(Unwrap(hit).parameter, Unwrap(hit).parameter), VDot(d, d))
                 cosine == Div(FAbs(VDot(d, Unwrap(hit).shading_normal)), VLength(d))
             IN  Div(distance_squared, Mul(cosine, area))
        ELSE R(0))

\* Plane::pdf_random
Plane_pdf_random(self, origin, u1, u2) ==
    VSub(<<Add(self.r0, Mul(u1, Sub(self.r1, self.r0))),
           self.k,
           Add(self.s0, Mul(u2, Sub(self.s1, self.s0)))>>,
         origin)

HitablePDF_new(origin, hitable) == [origin |-> origin, hitable |-> hitable]

HitablePDF_value(self, d) == Plane_pdf_value(self.hitable, self.origin, d)

HitablePDF_generate(self, u1, u2) == Plane_pdf_random(self.hitable, self.origin, u1, u2)

MixturePDF_new(cosine_pdf, hitable_pdf) ==
    [cosine_pdf |-> cosine_pdf, hitable_pdf |-> hitable_pdf]

\* MixturePDF::value without the weight of the cosine child
MixturePDF_value_unweighted(self, d) ==
    Add(CosinePDF_value(self.cosine_pdf, d),
        Mul(Q(1, 2), HitablePDF_value(self.hitable_pdf, d)))

MixturePDF_value(self, d) ==
    Add(Mul(Q(1, 2), CosinePDF_value(self.cosine_pdf, d)),
        Mul(Q(1, 2), HitablePDF_value(self.hitable_pdf, d)))

\* MixturePDF::generate: rnd[1] is the draw of generate itself, rnd[2] and
\* rnd[3] are the two draws of the child it calls
MixturePDF_generate(self, rnd) ==
    IF Lt(rnd[1], Q(1, 2))
    THEN CosinePDF_generate(self.cosine_pdf, rnd[2], rnd[3])
    ELSE HitablePDF_generate(self.hitable_pdf, rnd[2], rnd[3])

---------------------------------------------------------------------------
(* SpecPdf: the mixture PDF of a diffuse bounce is evaluated and sampled *)

\* rng.gen::<f32>() is a multiple of 2^-24 in [0, 1); the model has DrawBits
\* bits in place of 24
DrawBits == 2

RECURSIVE Pow2(_)
Pow2(n) == IF n = 0 THEN 1 ELSE 2 * Pow2(n - 1)

UniformDraws == {Q(k, Pow2(DrawBits)) : k \in 0 .. Pow2(DrawBits) - 1}

\* the pairs of draws of the sampled child: the first a quarter turn, the
\* second with rational roots of itself and of its complement
ChildDraws == {<<r1, r2>> : r1 \in {R(0), Q(1, 4), Q(1, 2), Q(3, 4)},
                            r2 \in {R(0), Q(9, 25), Q(16, 25)}}

\* the shading normals and the points of the hits under the light
PdfNormals == {V(0, 1, 0), V(0, 0, -1), V(3, 4, 0), V(-4, 0, -3)}

PdfOrigins == {V(0, 0, 0), V(1, -1, 0), V(-2, 0, 1)}

InitPdf ==
    /\ build \in Builds
    /\ scene = <<LightPlane>>
    /\ objects = scene
    /\ bvh = Unbuilt
    /\ NoQuery
    /\ NoBoxes
    /\ NoShading
    /\ frame_normal \in {Some(n) : n \in PdfNormals}
    /\ \E zero_sign \in {-1, 1}, o \in PdfOrigins :
          /\ uvw = Some(OrthonormalBase_new(Unwrap(frame_normal), zero_sign))
          /\ pdf = Some(MixturePDF_new(CosinePDF_new(Unwrap(frame_normal), zero_sign),
                                       HitablePDF_new(o, scene[1])))
    /\ pdf_direction = None
    /\ pdf_value = None
    /\ rng_draws = <<>>
    /\ generated = None
    /\ NoPath
    /\ NoRender
    /\ pc = "ready"

\* mixture_pdf.value(&direction)
Value ==
    /\ pc = "ready"
    /\ \E d \in Directions :
          /\ pdf_direction' = Some(d)
          /\ pdf_value' = Some(MixturePDF_value(Unwrap(pdf), d))
    /\ pc' = "valued"
    /\ UNCHANGED <<build, scene, objects, bvh, ray, position_min, position_max, record,
                   brute, boxes, box_out, emitted, scattered, frame_normal, uvw, pdf,
                   rng_draws, generated, path, render>>

\* mixture_pdf.generate(rng)
Generate ==
    /\ pc = "valued"
    /\ \E u \in UniformDraws, child \in ChildDraws :
          /\ rng_draws' = <<u, child[1], child[2]>>
          /\ generated' = Some(MixturePDF_generate(Unwrap(pdf), <<u, child[1], child[2]>>))
    /\ pc' = "generated"
    /\ UNCHANGED <<build, scene, objects, bvh, ray, position_min, position_max, record,
                   brute, boxes, box_out, emitted, scattered, frame_normal, uvw, pdf,
                   pdf_direction, pdf_value, path, render>>

NextPdf == Value \/ Generate

SpecPdf == InitPdf /\ [][NextPdf]_vars

\* the draws of generate itself on which the mixture pdf p, given the child
\* draws r1, r2, returns what its cosine child generates and not what its
\* hitable child generates
CosineDraws(p, r1, r2) ==
    {u \in UniformDraws :
        /\ MixturePDF_generate(p, <<u, r1, r2>>) = CosinePDF_generate(p.cosine_pdf, r1, r2)
        /\ MixturePDF_generate(p, <<u, r1, r2>>) # HitablePDF_generate(p.hitable_pdf, r1, r2)}

\* C12: value(d) is 0.5 * cosine_pdf.value(d) + 0.5 * hitable_pdf.value(d);
\* generate returns the sample of the cosine child when its own draw is below
\* 0.5 and the sample of the hitable child otherwise, and half of the equally
\* likely draws choose each child
C12_MixtureOfHalves ==
    /\ pc \in {"valued", "generated"} =>
          Unwrap(pdf_value) =
              Add(Mul(Q(1, 2), CosinePDF_value(Unwrap(pdf).cosine_pdf, Unwrap(pdf_direction))),
                  Mul(Q(1, 2), HitablePDF_value(Unwrap(pdf).hitable_pdf, Unwrap(pdf_direction))))
    /\ pc = "generated" =>
          /\ Unwrap(generated) =
                 IF Lt(rng_draws[1], Q(1, 2))
                 THEN CosinePDF_generate(Unwrap(pdf).cosine_pdf, rng_draws[2], rng_draws[3])
                 ELSE HitablePDF_generate(Unwrap(pdf).hitable_pdf, rng_draws[2], rng_draws[3])
          /\ CosinePDF_generate(Unwrap(pdf).cosine_pdf, rng_draws[2], rng_draws[3])
                 # HitablePDF_generate(Unwrap(pdf).hitable_pdf, rng_draws[2], rng_draws[3])
             => 2 * Cardinality(CosineDraws(Unwrap(pdf), rng_draws[2], rng_draws[3]))
                    = Cardinality(UniformDraws)

\* both children give a positive density to the direction evaluated, and
\* generate drew exactly 0.5 with children that sample different directions
C12_Witness ==
    /\ pc = "generated"
    /\ Gt(CosinePDF_value(Unwrap(pdf).cosine_pdf, Unwrap(pdf_direction)), R(0))
    /\ Gt(HitablePDF_value(Unwrap(pdf).hitable_pdf, Unwrap(pdf_direction)), R(0))
    /\ rng_draws[1] = Q(1, 2)
    /\ Unwrap(generated) # CosinePDF_generate(Unwrap(pdf).cosine_pdf, rng_draws[2], rng_draws[3])

---------------------------------------------------------------------------
(* SpecLight: the light rectangle is sampled and its density evaluated *)

\* a light rectangle of no width: r0 = r1
ThinLight ==
    Plane_new("XZ", R(0), R(0), R(-1), R(1), R(1), Light_new(ConstantTexture_new(15, 15, 15)))

Lights == {LightPlane, ThinLight}

InitLight ==
    /\ build \in Builds
    /\ \E light \in Lights, o \in PdfOrigins :
          /\ scene = <<light>>
          /\ pdf = Some(HitablePDF_new(o, light))
    /\ objects = scene
    /\ bvh = Unbuilt
    /\ NoQuery
    /\ NoBoxes
    /\ NoShading
    /\ NoBasis
    /\ pdf_direction = None
    /\ pdf_value = None
    /\ rng_draws = <<>>
    /\ generated = None
    /\ NoPath
    /\ NoRender
    /\ pc = "ready"

\* light.pdf_random(&origin, rng)
SampleLight ==
    /\ pc = "ready"
    /\ \E u1 \in UniformDraws, u2 \in UniformDraws :
          /\ rng_draws' = <<u1, u2>>
          /\ generated' = Some(HitablePDF_generate(Unwrap(pdf), u1, u2))
    /\ pc' = "sampled"
    /\ UNCHANGED <<build, scene, objects, bvh, ray, position_min, position_max, record,
                   brute, boxes, box_out, emitted, scattered, frame_normal, uvw, pdf,
                   pdf_direction, pdf_value, path, render>>

\* light.pdf_value(&origin, &direction), for the direction sampled or any other
LightDensity ==
    /\ pc \in {"ready", "sampled"}
    /\ \E d \in Directions \cup (IF IsSome(generated) THEN {Unwrap(generated)} ELSE {}) :
          /\ HasExactLength(d)
          /\ pdf_direction' = Some(d)
          /\ pdf_value' = Some(HitablePDF_value(Unwrap(pdf), d))
    /\ pc' = "valued"
    /\ UNCHANGED <<build, scene, objects, bvh, ray, position_min, position_max, record,
                   brute, boxes, box_out, emitted, scattered, frame_normal, uvw, pdf,
                   rng_draws, generated, path, render>>

NextLight == SampleLight \/ LightDensity

SpecLight == InitLight /\ [][NextLight]_vars

\* the ray from the origin of the PDF along its direction hits the light
LightIsHit ==
    IsSome(Plane_hit(scene[1], Ray_new(Unwrap(pdf).origin, Unwrap(pdf_direction), R(0)),
                     Q(1, 1000), FMAX))

AreaOf(light) == Mul(Sub(light.r1, light.r0), Sub(light.s1, light.s0))

\* C24 as claimed: the density is 0 for a direction whose ray misses the light,
\* it is 0 for a light of zero area, and it is never infinite or NaN
C24_LightDensityFinite ==
    pc = "valued" =>
        /\ ~LightIsHit => Unwrap(pdf_value) = R(0)
        /\ AreaOf(scene[1]) = R(0) => Unwrap(pdf_value) = R(0)
        /\ IsFinite(Unwrap(pdf_value))

---------------------------------------------------------------------------
(* materials.rs: scatter and scattering_pdf *)

ScatterRecord_new(specular_ray, attenuation, cosine_pdf, specular) ==
    [specular_ray |-> specular_ray, attenuation |-> attenuation, pdf |-> cosine_pdf,
     specular |-> specular]

\* the roughness the Diffuse materials of the model are built with
DiffuseRoughness == R(0)

\* Diffuse::new: sigma = roughness.to_radians(), sigma2 = sigma.powf(2.0)
Diffuse_sigma2 ==
    LET sigma == Div(Mul(DiffuseRoughness, PI), R(180))
    IN  Mul(sigma, sigma)

Diffuse_alpha ==
    Sub(R(1), Div(Diffuse_sigma2, Mul(R(2), Add(Diffuse_sigma2, Q(33, 100)))))

Diffuse_beta == Div(Mul(Q(45, 100), Diffuse_sigma2), Add(Diffuse_sigma2, Q(9, 100)))

\* clamp as scattering_pdf calls it, with the two limits as arguments
clamp(n, low, high) == ScalarMax(ScalarMin(n, high), low)

\* Diffuse::scatter
Diffuse_scatter(self, r, hit, zero_sign) ==
    Some(ScatterRecord_new(Ray_new(hit.point, VNormalize(r.direction), r.time),
                           Texture_value(self.albedo, hit.u, hit.v, hit.point),
                           CosinePDF_new(hit.shading_normal, zero_sign),
                           FALSE))

\* the squared sines of Diffuse::scattering_pdf, whose roots it takes
Diffuse_sin2_theta(hit, w) ==
    LET cos_theta == ScalarMax(VDot(VNormalize(hit.shading_normal), VNormalize(w.direction)),
                               R(0))
    IN  ScalarMax(Sub(R(1), Mul(cos_theta, cos_theta)), R(0))

\* the angles of Diffuse::scattering_pdf about the unit direction w: cos_theta,
\* sin_theta, cos_phi and sin_phi
Diffuse_angles(n, w, sin2_theta) ==
    With(ScalarMax(VDot(n, w), R(0)), LAMBDA cos_theta :
    With(Sqrt(sin2_theta), LAMBDA sin_theta :
        [cos_theta |-> cos_theta,
         sin_theta |-> sin_theta,
         cos_phi |-> IF sin_theta # R(0) THEN clamp(Div(w[1], sin_theta), R(-1), R(1))
                     ELSE R(1),
         sin_phi |-> IF sin_theta # R(0) THEN clamp(Div(w[2], sin_theta), R(-1), R(1))
                     ELSE R(0)]))

\* Diffuse::scattering_pdf
Diffuse_scattering_pdf(self, wo, hit, wi) ==
    With(VNormalize(hit.shading_normal), LAMBDA n :
    With(Diffuse_angles(n, VNormalize(wi.direction), Diffuse_sin2_theta(hit, wi)), LAMBDA i :
    With(Diffuse_angles(n, VNormalize(wo.direction), Diffuse_sin2_theta(hit, wo)), LAMBDA o :
        LET swap == Gt(FAbs(i.cos_theta), FAbs(o.cos_theta))
            sin_alpha == IF swap THEN o.sin_theta ELSE i.sin_theta
            tan_beta == IF swap THEN Div(i.sin_theta, FAbs(i.cos_theta))
                        ELSE Div(o.sin_theta, FAbs(o.cos_theta))
            cos_diff == Add(Mul(i.cos_phi, o.cos_phi), Mul(i.sin_phi, o.sin_phi))
            max_cos == ScalarMax(cos_diff, R(0))
        IN  Div(Mul(i.cos_theta,
                    Add(Diffuse_alpha,
                        Mul(Mul(Mul(Diffuse_beta, max_cos), sin_alpha), tan_beta))),
                PI))))

\* reflect: the mirror image of v about the surface of normal n
reflect(v, n) == VSub(v, VScale(Mul(R(2), VDot(v, n)), n))

Reflective_new(albedo, fuzz) == [kind |-> "reflective", albedo |-> albedo, fuzz |-> fuzz]

\* Reflective::scatter, for the point sphere_point that pick_sphere_point draws
Reflective_scatter(self, r, hit, sphere_point, zero_sign) ==
    LET reflected == reflect(VNormalize(r.direction), hit.shading_normal)
    IN  Some(ScatterRecord_new(Ray_new(hit.point,
                                       VAdd(reflected, VScale(self.fuzz, sphere_point)),
                                       r.time),
                               self.albedo,
                               CosinePDF_new(hit.shading_normal, zero_sign),
                               TRUE))

\* the discriminant of refract, whose root it takes
refract_discriminant(v, n, refractive_index) ==
    LET direction == VDot(VNormalize(v), n)
    IN  Sub(R(1), Mul(Mul(refractive_index, refractive_index),
                      Sub(R(1), Mul(direction, direction))))

\* refract: the direction of v past the surface of normal n by Snell's law, or
\* None when all of the light is reflected
refract(v, n, refractive_index) ==
    LET uv == VNormalize(v)
        direction == VDot(uv, n)
        discriminant == refract_discriminant(v, n, refractive_index)
    IN  IF Gt(discriminant, R(0))
        THEN Some(VSub(VScale(refractive_index, VSub(uv, VScale(direction, n))),
                       VScale(Sqrt(discriminant), n)))
        ELSE None

\* x.powf(5.0)
Powf5(x) == Mul(Mul(Mul(x, x), Mul(x, x)), x)

\* schlick: the share of the light that is reflected
schlick(cosine, reference_index) ==
    LET r0 == Div(Sub(R(1), reference_index), Add(R(1), reference_index))
        r0_squared == Mul(r0, r0)
    IN  Add(r0_squared, Mul(Sub(R(1), r0_squared), Powf5(Sub(R(1), cosine))))

Refractive_new(index) == [kind |-> "refractive", refractive_index |-> index]

\* the side of the surface the ray meets in Refractive::scatter: the outward
\* normal, the ratio of the indices and the cosine handed to schlick
Refractive_side(self, r, hit) ==
    LET incident == VDot(r.direction, hit.shading_normal)
    IN  IF Gt(incident, R(0))
        THEN [outward_normal |-> VNeg(hit.shading_normal),
              refractive_index |-> self.refractive_index,
              cosine |-> Div(Mul(self.refractive_index, incident), VLength(r.direction))]
        ELSE [outward_normal |-> hit.shading_normal,
              refractive_index |-> Div(R(1), self.refractive_index),
              cosine |-> Div(Neg(incident), VLength(r.direction))]

\* the reflect probability taken from schlick whether or not the ray is refracted
reflect_probability_of_schlick(refracted, cosine, reference_index) ==
    schlick(cosine, reference_index)

\* the reflect probability of Refractive::scatter
reflect_probability(refracted, cosine, reference_index) ==
    IF IsSome(refracted) THEN schlick(cosine, reference_index) ELSE R(1)

\* Refractive::scatter for the draw of rand::random: the value returned, or a
\* panic where it unwraps a refraction that is None
Refractive_scatter(self, r, hit, draw, zero_sign) ==
    LET reflected == reflect(VNormalize(r.direction), hit.shading_normal)
        side == Refractive_side(self, r, hit)
        refracted == refract(r.direction, side.outward_normal, side.refractive_index)
        probability == reflect_probability(refracted, side.cosine, self.refractive_index)
        cosine_pdf == CosinePDF_new(hit.shading_normal, zero_sign)
    IN  IF Lt(draw, probability)
        THEN [panics |-> FALSE,
              returns |-> Some(ScatterRecord_new(Ray_new(hit.point, reflected, r.time),
                                                 V(1, 1, 1), cosine_pdf, TRUE))]
        ELSE IF ~IsSome(refracted) THEN [panics |-> TRUE, returns |-> None]
        ELSE [panics |-> FALSE,
              returns |-> Some(ScatterRecord_new(Ray_new(hit.point, Unwrap(refracted),
                                                         r.time),
                                                 V(1, 1, 1), cosine_pdf, TRUE))]

\* the Material trait: the materials of the model are Light, Diffuse and
\* Reflective; the mirrors of the model have fuzz 0, for which the point drawn
\* from the unit sphere drops out of the reflected direction
Material_emitted(self, r, hit) ==
    IF self.kind = "light" THEN Light_emitted(self, r, hit) ELSE VZero

Material_scatter(self, r, hit, zero_sign) ==
    IF self.kind = "diffuse" THEN Diffuse_scatter(self, r, hit, zero_sign)
    ELSE IF self.kind = "reflective"
    THEN Reflective_scatter(self, r, hit, V(0, 0, 1), zero_sign)
    ELSE Light_scatter(self, r, hit)

Material_scattering_pdf(self, wo, hit, wi) ==
    IF self.kind = "diffuse" THEN Diffuse_scattering_pdf(self, wo, hit, wi) ELSE R(1)

---------------------------------------------------------------------------
(* utils.rs *)

\* de_nan: each NaN component becomes 0.0
de_nan(c) == [i \in 1 .. 3 |-> IF IsNaN(c[i]) THEN R(0) ELSE c[i]]

---------------------------------------------------------------------------
(* integrator.rs: compute_color *)

\* the colour of the atmosphere for a ray that hit nothing
Atmosphere_lerp(r) ==
    LET point == Mul(Q(1, 2), Add(r.direction[2], R(1)))
    IN  VAdd(VScale(Sub(R(1), point), V(1, 1, 1)),
             VScale(point, <<Q(1, 2), Q(7, 10), R(1)>>))

\* what the loop body leaves when a root it would take is irrational or the two
\* normals of the hit differ: nothing the model follows
Inexact(r, tp, col) ==
    [color |-> col, throughput |-> tp, ray |-> r, stop |-> FALSE, exact |-> FALSE,
     emitted |-> None, scattered |-> None]

\* the branch of the loop body for a scatter record that is not specular
ShadeDiffuse(r, h, tp, col1, em, sc, light, rnd) ==
    With(MixturePDF_new(Unwrap(sc).pdf, HitablePDF_new(h.point, light)),
         LAMBDA mixture_pdf :
    With(MixturePDF_generate(mixture_pdf, rnd), LAMBDA generated_direction :
        IF ~(h.geometric_normal = h.shading_normal /\ HasExactLength(generated_direction))
        THEN Inexact(r, tp, col1)
        ELSE
    With(Ray_new(h.point, generated_direction, r.time), LAMBDA next_ray :
        IF ~(/\ HasExactSqrt(Diffuse_sin2_theta(h, next_ray))
             /\ HasExactSqrt(Diffuse_sin2_theta(h, r)))
        THEN Inexact(r, tp, col1)
        ELSE
    With(MixturePDF_value(mixture_pdf, next_ray.direction), LAMBDA pdf_of_ray :
    With(Material_scattering_pdf(h.material, r, h, next_ray), LAMBDA scattering_pdf :
        [color |-> col1,
         throughput |-> VMul(tp, [i \in 1 .. 3 |->
                                     Div(Mul(scattering_pdf, Unwrap(sc).attenuation[i]),
                                         pdf_of_ray)]),
         ray |-> next_ray, stop |-> FALSE, exact |-> TRUE,
         emitted |-> Some(em), scattered |-> sc])))))

\* the specular branch dividing the throughput by the attenuation
ShadeSpecular_divides(tp, col1, em, sc) ==
    [color |-> col1,
     throughput |-> [i \in 1 .. 3 |-> Div(tp[i], Unwrap(sc).attenuation[i])],
     ray |-> Unwrap(sc).specular_ray, stop |-> FALSE,
     exact |-> TRUE, emitted |-> Some(em), scattered |-> sc]

\* the branch of the loop body for a specular scatter record
ShadeSpecular(tp, col1, em, sc) ==
    [color |-> col1, throughput |-> VMul(tp, Unwrap(sc).attenuation),
     ray |-> Unwrap(sc).specular_ray, stop |-> FALSE,
     exact |-> TRUE, emitted |-> Some(em), scattered |-> sc]

\* the branch of the loop body for Some(hit_record)
ShadeHit(r, h, tp, col, light, rnd, zero_sign) ==
    With(Material_emitted(h.material, r, h), LAMBDA em :
    With(VAdd(col, VMul(tp, em)), LAMBDA col1 :
    With(Material_scatter(h.material, r, h, zero_sign), LAMBDA sc :
        IF ~IsSome(sc)
        THEN [color |-> col1, throughput |-> tp, ray |-> r, stop |-> TRUE,
              exact |-> TRUE, emitted |-> Some(em), scattered |-> sc]
        ELSE IF Unwrap(sc).specular
        THEN ShadeSpecular(tp, col1, em, sc)
        ELSE ShadeDiffuse(r, h, tp, col1, em, sc, light, rnd))))

\* the body of the loop up to the Russian roulette, for the result hit of
\* world.hit: the new color, throughput and ray, whether the loop breaks, and
\* whether the model follows the iteration (exact)
Shade(r, hit, tp, col, light, sky, rnd, zero_sign) ==
    IF IsSome(hit)
    THEN ShadeHit(r, Unwrap(hit), tp, col, light, rnd, zero_sign)
    ELSE [color |-> IF sky THEN VMul(tp, Atmosphere_lerp(r)) ELSE VZero,
          throughput |-> tp, ray |-> r, stop |-> FALSE, exact |-> TRUE,
          emitted |-> None, scattered |-> None]

\* the Russian roulette dividing by roulette_factor itself
Roulette_by_factor(tp, b, draw) ==
    IF b > 3
    THEN LET roulette_factor == ScalarMax(Sub(R(1), MaxElement(tp)), Q(1, 20))
         IN  IF Lt(draw, roulette_factor)
             THEN [throughput |-> tp, stop |-> TRUE, drew |-> 1]
             ELSE [throughput |-> [i \in 1 .. 3 |-> Div(tp[i], roulette_factor)],
                   stop |-> FALSE, drew |-> 1]
    ELSE [throughput |-> tp, stop |-> FALSE, drew |-> 0]

\* the Russian roulette without the break
Roulette_without_break(tp, b, draw) ==
    IF b > 3
    THEN LET roulette_factor == ScalarMax(Sub(R(1), MaxElement(tp)), Q(1, 20))
         IN  [throughput |-> [i \in 1 .. 3 |->
                                 Div(tp[i], Sub(R(1), roulette_factor))],
              stop |-> FALSE, drew |-> 1]
    ELSE [throughput |-> tp, stop |-> FALSE, drew |-> 0]

\* the Russian roulette at the end of the loop body
Roulette(tp, b, draw) ==
    IF b > 3
    THEN LET roulette_factor == ScalarMax(Sub(R(1), MaxElement(tp)), Q(1, 20))
         IN  IF Lt(draw, roulette_factor)
             THEN [throughput |-> tp, stop |-> TRUE, drew |-> 1]
             ELSE [throughput |-> [i \in 1 .. 3 |->
                                      Div(tp[i], Sub(R(1), roulette_factor))],
                   stop |-> FALSE, drew |-> 1]
    ELSE [throughput |-> tp, stop |-> FALSE, drew |-> 0]

---------------------------------------------------------------------------
(* SpecColor: compute_color follows one camera ray through a scene *)

\* the greatest value of compute_color's bounces
MaxBounces == 5

PathSphere == UnitSphere(0, 0, 0, 1)

PathLight ==
    Plane_new("XZ", R(-1), R(1), R(0), R(2), R(3), Light_new(ConstantTexture_new(15, 15, 15)))

\* a rectangle light in an XY plane beside the sphere (scene.rs:327-333)
SideLight ==
    Plane_new("XY", R(0), R(2), R(4), R(6), R(2), Light_new(ConstantTexture_new(4, 4, 4)))

\* a mirror that keeps the red of the light and half of its green and blue
Mirror == Reflective_new(<<R(1), Q(1, 2), Q(1, 2)>>, R(0))

\* two mirror balls, one above the other
MirrorSphere == Sphere_new(V(0, 0, 0), V(0, 0, 0), R(1), Mirror, R(0), R(1))

UpperMirror == Sphere_new(V(0, 3, 0), V(0, 3, 0), R(1), Mirror, R(0), R(1))

\* a mirror ball beside and above the light: the ray that rises from (3, 0, 0)
\* meets it at (3, 31/8, 0), where its normal is (-3/5, -4/5, 0), and leaves
\* towards the upper face of the light
TiltedMirror ==
    Sphere_new(<<Q(18, 5), Q(187, 40), R(0)>>, <<Q(18, 5), Q(187, 40), R(0)>>, R(1),
               Mirror, R(0), R(1))

PathScenes ==
    {<<PathSphere, PathLight>>, <<PathLight>>, <<PathSphere, SideLight>>,
     <<TiltedMirror, PathLight>>, <<MirrorSphere, UpperMirror>>}

\* the light compute_color is handed as light_source: the light of the scene,
\* or a light outside a scene that has none
LightOf(objs) == IF objs[Len(objs)].kind = "plane" THEN objs[Len(objs)] ELSE PathLight

\* camera rays <<origin, direction>>: onto the sphere from below, from the
\* side and from above, onto the light from above and from below, past everything
PathRays ==
    {<<V(0, -3, 0), V(0, 1, 0)>>, <<V(-3, 0, 0), V(1, 0, 0)>>, <<V(0, 2, 0), V(0, -1, 0)>>,
     <<V(0, 5, 1), V(0, -1, 0)>>, <<V(0, 2, 1), V(0, 1, 0)>>,
     <<V(3, 0, 0), V(0, 1, 0)>>, <<V(3, 0, 0), V(-4, 0, -3)>>, <<V(3, 0, 0), V(3, 4, 0)>>}

InitColor ==
    /\ build \in Builds
    /\ scene \in PathScenes
    /\ \E axes \in [1 .. Calls(Len(scene)) -> 0 .. 2] :
          \E out \in {BVH_from(scene, axes, Time0, Time1)} :
              /\ bvh = out.node
              /\ objects = out.objects
    /\ \E cr \in PathRays : ray = Some(Ray_new(cr[1], cr[2], R(0)))
    /\ position_min = Q(1, 100)
    /\ position_max = FMAX
    /\ record = None
    /\ brute = None
    /\ NoBoxes
    /\ NoShading
    /\ NoSampling
    /\ light_source = Some(LightOf(scene))
    /\ atmosphere \in BOOLEAN
    /\ bounces \in {0, 1, MaxBounces}
    /\ bounce = 0
    /\ color = VZero
    /\ throughput = V(1, 1, 1)
    /\ queries = 0
    /\ roulette_draws = 0
    /\ roulette_draw = None
    /\ NoRender
    /\ pc = "tracing"

\* the draws an iteration consumes: <<u, r1, r2, zero_sign>> for the mixture
\* PDF of a Diffuse hit (zero_sign is the sign bit of a zero normal.z), and
\* the draw of the Russian roulette from bounce 4 on
ShadeDraws(hit) ==
    IF IsSome(hit) /\ Unwrap(hit).material.kind = "diffuse"
    THEN {<<u, child[1], child[2], zero_sign>> :
              u \in UniformDraws, child \in ChildDraws, zero_sign \in {-1, 1}}
    ELSE IF IsSome(hit) /\ Unwrap(hit).material.kind = "reflective"
    THEN {<<R(0), R(0), R(0), zero_sign>> : zero_sign \in {-1, 1}}
    ELSE {<<R(0), R(0), R(0), 1>>}

RouletteDraws(b) == IF b > 3 THEN UniformDraws ELSE {R(0)}

\* the range of the loop ending one iteration late
LastOfRange_one_late(b, n) == b = n + 1

\* for bounce in 0..=bounces: the iteration for b is the last of the range
LastOfRange(b, n) == b = n

\* one iteration of the loop of compute_color; the function returns when the
\* loop breaks or has run for bounce = bounces
Bounce ==
    /\ pc = "tracing"
    /\ Exact(bvh, Unwrap(ray))
    /\ \E hit \in {Hit(bvh, Unwrap(ray), Q(1, 100), FMAX, PosInf)} :
          /\ record' = hit
          /\ queries' = queries + 1
          /\ \E rnd \in ShadeDraws(hit) :
             \E out \in {Shade(Unwrap(ray), hit, throughput, color, Unwrap(light_source),
                               atmosphere, <<rnd[1], rnd[2], rnd[3]>>, rnd[4])} :
                /\ out.exact
                /\ emitted' = out.emitted
                /\ scattered' = out.scattered
                /\ color' = out.color
                /\ ray' = Some(out.ray)
                /\ IF out.stop
                   THEN /\ throughput' = out.throughput
                        /\ roulette_draws' = roulette_draws
                        /\ roulette_draw' = roulette_draw
                        /\ bounce' = bounce
                        /\ pc' = "returned"
                   ELSE \E roulette \in RouletteDraws(bounce) :
                        \E last \in {Roulette(out.throughput, bounce, roulette)} :
                            /\ throughput' = last.throughput
                            /\ roulette_draws' = roulette_draws + last.drew
                            /\ roulette_draw' = IF last.drew = 1 THEN Some(roulette)
                                                 ELSE roulette_draw
                            /\ IF last.stop \/ LastOfRange(bounce, bounces)
                               THEN bounce' = bounce /\ pc' = "returned"
                               ELSE bounce' = bounce + 1 /\ pc' = "tracing"
    /\ UNCHANGED <<build, scene, objects, bvh, position_min, position_max, brute, boxes,
                   box_out, sampling, light_source, atmosphere, bounces, render>>

NextColor == Bounce

SpecColor == InitColor /\ [][NextColor]_vars

HasNaN(c) == \E i \in 1 .. 3 : IsNaN(c[i])

\* C13 as claimed: a NaN that arises along the path is set to zero where it is
\* accumulated, so the colour compute_color returns has no NaN component
C13_ReturnedColorHasNoNaN == pc = "returned" => ~HasNaN(color)

\* C20 as claimed: the iteration in which world.hit returns None is the last
\* one: compute_color returns the atmosphere gradient weighted by the
\* throughput it held at the miss, or black without atmosphere, and makes no
\* further query, roulette draw or throughput update
C20_MissEndsPath ==
    [][(pc = "tracing" /\ queries' = queries + 1 /\ record' = None) =>
           /\ pc' = "returned"
           /\ color' = IF atmosphere THEN VMul(throughput, Atmosphere_lerp(Unwrap(ray)))
                       ELSE VZero
           /\ throughput' = throughput
           /\ roulette_draws' = roulette_draws]_vars

\* the density of the mixture PDF of the hit h at the direction d, as
\* compute_color evaluates it for the scatter record sc
MixtureDensity(h, sc, light, d) ==
    MixturePDF_value(MixturePDF_new(sc.pdf, HitablePDF_new(h.point, light)), d)

\* C22 as claimed: in an iteration that scatters without a specular record and
\* finds the mixture density zero at the sampled direction, the throughput is
\* not divided by the density: it stays finite, and as it was before the
\* iteration as long as no roulette is played
C22_ZeroDensityDropsSample ==
    [][(/\ pc = "tracing"
        /\ queries' = queries + 1
        /\ IsSome(scattered')
        /\ ~Unwrap(scattered').specular
        /\ MixtureDensity(Unwrap(record'), Unwrap(scattered'), Unwrap(light_source),
                          Unwrap(ray').direction) = R(0)) =>
           /\ \A i \in 1 .. 3 : IsFinite(throughput'[i])
           /\ bounce <= 3 => throughput' = throughput]_vars

\* C25 as claimed: an iteration that hits adds throughput x emitted of the hit
\* to the colour and nothing else; with a specular scatter record the next ray
\* is the record's specular ray and the throughput is multiplied by the
\* record's attenuation, divided by nothing but the Russian roulette of the
\* later bounces; with no scatter record compute_color returns that colour
C25_SpecularBounceAndAbsorption ==
    [][(pc = "tracing" /\ queries' = queries + 1 /\ IsSome(record')) =>
           LET h == Unwrap(record')
               em == Material_emitted(h.material, Unwrap(ray), h)
           IN  /\ (IsSome(scattered') /\ Unwrap(scattered').specular) =>
                     LET tp == VMul(throughput, Unwrap(scattered').attenuation)
                     IN  /\ color' = VAdd(color, VMul(throughput, em))
                         /\ ray' = Some(Unwrap(scattered').specular_ray)
                         /\ bounce <= 3 =>
                               /\ throughput' = tp
                               /\ roulette_draws' = roulette_draws
                               /\ pc' = "returned" <=> bounce = bounces
                         /\ bounce > 3 =>
                               /\ roulette_draws' = roulette_draws + 1
                               /\ throughput' =
                                     Roulette(tp, bounce, Unwrap(roulette_draw')).throughput
               /\ scattered' = None =>
                     /\ pc' = "returned"
                     /\ color' = VAdd(color, VMul(throughput, em))
                     /\ throughput' = throughput]_vars

\* compute_color has returned from a light that absorbed a path a mirror had
\* reflected: the throughput is the mirror's albedo and the colour is that
\* throughput times the light's emission
C25_Witness ==
    /\ pc = "returned"
    /\ queries = 2
    /\ IsSome(record)
    /\ scattered = None
    /\ throughput = <<R(1), Q(1, 2), Q(1, 2)>>
    /\ color = <<R(15), Q(15, 2), Q(15, 2)>>

\* a path starts with throughput (1, 1, 1) and colour (0, 0, 0)
PathStartsClean == queries = 0 => (throughput = V(1, 1, 1) /\ color = VZero)

\* every iteration makes one query of the BVH: bounce counts the iterations
\* completed before the current one
OneQueryEach == queries = bounce + (IF pc = "returned" THEN 1 ELSE 0)

\* the paths of SpecColor start clean and run at most bounces + 1 iterations
PathIterationsBounded == PathStartsClean /\ OneQueryEach /\ queries <= bounces + 1

---------------------------------------------------------------------------
(* SpecLoop: the loop of compute_color, whatever the scene returns *)

\* what the body of an iteration does before the Russian roulette: the hit is
\* absorbed (scatter returns None), the path is scattered, or the ray misses
BodyOutcomes == {"absorbed", "scattered", "missed"}

\* the emission of the material hit
BodyEmissions == {V(15, 15, 15)}

\* the factors a scatter multiplies the throughput by
BodyFactors == {<<R(1), Q(1, 2), Q(1, 2)>>, <<Q(1, 2), Q(1, 2), Q(1, 2)>>}

InitLoop ==
    /\ build \in Builds
    /\ scene = <<>>
    /\ objects = scene
    /\ bvh = Unbuilt
    /\ NoQuery
    /\ NoBoxes
    /\ NoShading
    /\ NoSampling
    /\ light_source = None
    /\ atmosphere \in BOOLEAN
    /\ bounces \in 0 .. MaxBounces
    /\ bounce = 0
    /\ color = VZero
    /\ throughput = V(1, 1, 1)
    /\ queries = 0
    /\ roulette_draws = 0
    /\ roulette_draw = None
    /\ NoRender
    /\ pc = "tracing"

\* one iteration of the loop, for an outcome of the body, the emission of the
\* material hit and the factor of the scatter; the sky of a miss is white
Iterate ==
    /\ pc = "tracing"
    /\ queries' = queries + 1
    /\ \E outcome \in BodyOutcomes, em \in BodyEmissions, factor \in BodyFactors :
          /\ color' = IF outcome = "missed"
                      THEN IF atmosphere THEN VMul(throughput, V(1, 1, 1)) ELSE VZero
                      ELSE VAdd(color, VMul(throughput, em))
          /\ IF outcome = "absorbed"
             THEN /\ throughput' = throughput
                  /\ roulette_draws' = roulette_draws
                  /\ roulette_draw' = roulette_draw
                  /\ bounce' = bounce
                  /\ pc' = "returned"
             ELSE \E roulette \in RouletteDraws(bounce) :
                  \E last \in {Roulette(IF outcome = "scattered"
                                        THEN VMul(throughput, factor) ELSE throughput,
                                        bounce, roulette)} :
                      /\ throughput' = last.throughput
                      /\ roulette_draws' = roulette_draws + last.drew
                      /\ roulette_draw' = IF last.drew = 1 THEN Some(roulette)
                                           ELSE roulette_draw
                      /\ IF last.stop \/ LastOfRange(bounce, bounces)
                         THEN bounce' = bounce /\ pc' = "returned"
                         ELSE bounce' = bounce + 1 /\ pc' = "tracing"
    /\ UNCHANGED <<build, scene, objects, bvh, ray, position_min, position_max,
                   record, brute, boxes, box_out, emitted, scattered, sampling,
                   light_source, atmosphere, bounces, render>>

NextLoop == Iterate

\* what every iteration does first: Iterate is enabled exactly when the call
\* has not returned, and each of its steps is a step of QueryStep
QueryStep == pc = "tracing" /\ queries' = queries + 1

\* compute_color is sequential code: a call that has not returned takes its
\* next iteration
SpecLoop == InitLoop /\ [][NextLoop]_vars /\ WF_queries(QueryStep)

\* C26 as claimed: a path starts with throughput (1, 1, 1) and colour
\* (0, 0, 0), compute_color returns, and it runs at most bounces iterations,
\* each with one query of the BVH
C26_AtMostLimitIterations ==
    /\ [](PathStartsClean /\ OneQueryEach /\ queries <= bounces)
    /\ <>(pc = "returned")

\* C26 with the count of the range 0..=bounces: a path starts with throughput
\* (1, 1, 1) and colour (0, 0, 0), compute_color returns, and it runs at most
\* bounces + 1 iterations, each with one query of the BVH
C26_AtMostLimitPlusOneIterations ==
    /\ [](PathStartsClean /\ OneQueryEach /\ queries <= bounces + 1)
    /\ <>(pc = "returned")

\* compute_color has returned after the whole range, with the greatest limit
C26_Witness ==
    /\ pc = "returned"
    /\ bounces = MaxBounces
    /\ queries = bounces + 1

---------------------------------------------------------------------------
(* SpecRefract: Refractive::scatter at a hit of a glass surface *)

\* the unit normals of the surfaces hit
GlassNormals == {V(0, 1, 0), V(0, -1, 0), V(0, 0, 1), <<Q(3, 5), Q(4, 5), R(0)>>}

\* the refractive indices: none, glass, water (whose refraction of the 3-4-5
\* directions is rational) and one that reflects them totally
GlassIndices == {R(1), Q(3, 2), Q(4, 3), Q(5, 3)}

InitRefract ==
    /\ build \in Builds
    /\ scene = <<>>
    /\ objects = scene
    /\ bvh = Unbuilt
    /\ \E d \in Directions : ray = Some(Ray_new(V(0, 0, 0), d, R(0)))
    /\ position_min = Q(1, 100)
    /\ position_max = FMAX
    /\ \E n \in GlassNormals, index \in GlassIndices :
          record = Some(HitRecord_new(R(1), R(0), R(0), point_at_parameter(Unwrap(ray), R(1)),
                                      n, n, Refractive_new(index)))
    /\ brute = None
    /\ NoBoxes
    /\ NoShading
    /\ NoSampling
    /\ NoPath
    /\ NoRender
    /\ pc = "hit"

\* hit_record.material.scatter(&ray, &hit_record, rng) for a Refractive
\* material, where the root refract takes is rational
ScatterRefractive ==
    /\ pc = "hit"
    /\ LET side == Refractive_side(Unwrap(record).material, Unwrap(ray), Unwrap(record))
       IN  HasExactSqrt(refract_discriminant(Unwrap(ray).direction, side.outward_normal,
                                             side.refractive_index))
    /\ \E draw \in UniformDraws, zero_sign \in {-1, 1} :
       \E out \in {Refractive_scatter(Unwrap(record).material, Unwrap(ray), Unwrap(record),
                                      draw, zero_sign)} :
          /\ rng_draws' = <<draw>>
          /\ scattered' = out.returns
          /\ pc' = IF out.panics THEN "panicked" ELSE "scattered"
    /\ UNCHANGED <<build, scene, objects, bvh, ray, position_min, position_max, record,
                   brute, boxes, box_out, emitted, frame_normal, uvw, pdf, pdf_direction,
                   pdf_value, generated, path, render>>

NextRefract == ScatterRefractive

SpecRefract == InitRefract /\ [][NextRefract]_vars

\* the refraction Refractive::scatter computed for the hit of the state
RefractedAtHit ==
    LET side == Refractive_side(Unwrap(record).material, Unwrap(ray), Unwrap(record))
    IN  refract(Unwrap(ray).direction, side.outward_normal, side.refractive_index)

\* C28: Refractive::scatter never panics on an absent refraction: it returns
\* Some record with specular = true, and where refract returned None the
\* record's ray is the reflected one
C28_RefractiveNeverUnwrapsNone ==
    /\ pc # "panicked"
    /\ pc = "scattered" =>
          /\ IsSome(scattered)
          /\ Unwrap(scattered).specular
          /\ ~IsSome(RefractedAtHit) =>
                Unwrap(scattered).specular_ray.direction =
                    reflect(Unwrap(ray).direction, Unwrap(record).shading_normal)

\* scatter has returned for a ray that is totally reflected, with the
\* greatest draw
C28_Witness ==
    /\ pc = "scattered"
    /\ ~IsSome(RefractedAtHit)
    /\ rng_draws = <<Q(Pow2(DrawBits) - 1, Pow2(DrawBits))>>
    /\ Unwrap(scattered).specular

---------------------------------------------------------------------------
(* SpecWorld: World::hit scans a list of objects for one ray *)

\* the longest list scanned
MaxScan == 2

\* a triangle below FlatTriangle
DeepTriangle ==
    Triangle_new(V(0, 0, -1), V(2, 0, -1), V(0, 2, -1), V(0, 0, 1), V(0, 0, 1), V(0, 0, 1),
                 Diffuse_new(ConstantTexture_new(8, 0, 0)))

\* TriangleMesh: the triangles are held in a World, which hit is passed on to
TriangleMesh_new(triangles) == World_of(triangles)

WorldObjects ==
    {UnitSphere(0, 0, 0, 1), UnitSphere(2, 0, 0, 2), FlatTriangle, DeepTriangle,
     TriangleMesh_new(<<FlatTriangle, DeepTriangle>>)}

WorldOrigins == {V(x, y, z) : x \in {-3, 0, 1}, y \in {0, 1}, z \in {0, 1}}

InitWorld ==
    /\ build \in Builds
    /\ scene \in SeqsUpTo(WorldObjects, MaxScan)
    /\ objects = scene
    /\ bvh = Unbuilt
    /\ pc = "ready"
    /\ NoQuery
    /\ NoBoxes
    /\ NoShading
    /\ NoSampling
    /\ NoPath
    /\ NoRender

\* World::hit(ray, t_min, t_max) over the list
ScanWorld ==
    /\ pc = "ready"
    /\ \E o \in WorldOrigins, d \in Directions, range \in QueryRanges :
          \E r \in {Ray_new(o, d, R(0))} :
              /\ Exact(World_of(scene), r)
              /\ ray' = Some(r)
              /\ position_min' = range[1]
              /\ position_max' = range[2]
              /\ brute' = World_hit(scene, r, range[1], range[2], PosInf)
    /\ pc' = "scanned"
    /\ UNCHANGED <<build, scene, objects, bvh, record, boxes, box_out, emitted, scattered,
                   sampling, path, render>>

NextWorld == ScanWorld

SpecWorld == InitWorld /\ [][NextWorld]_vars

\* the primitives of a list, those held by its meshes among them
RECURSIVE Primitives(_)
Primitives(objs) ==
    IF objs = <<>> THEN <<>>
    ELSE (IF Head(objs).kind = "world" THEN Primitives(Head(objs).objects)
          ELSE <<Head(objs)>>) \o Primitives(Tail(objs))

\* the hits of the ray of the state on the primitives of the scene, each
\* asked for the whole range
HitsInRange ==
    LET prims == Primitives(scene)
    IN  {h \in {Hit(prims[i], Unwrap(ray), position_min, position_max, PosInf) :
                    i \in 1 .. Len(prims)} : IsSome(h)}

\* the scene with its objects in the order of the permutation p
Reordered(p) == [i \in 1 .. Len(scene) |-> scene[p[i]]]

\* C30 as claimed: World::hit returns None exactly when the ray hits no object
\* within the range; a record it returns has the smallest t of the objects hit
\* within the range, triangles of a mesh among them; and the t it returns is
\* the same for every order of the list
C30_WorldReturnsClosestHit ==
    pc = "scanned" =>
        /\ IsSome(brute) <=> HitsInRange # {}
        /\ IsSome(brute) =>
              /\ \A h \in HitsInRange : Le(Unwrap(brute).parameter, Unwrap(h).parameter)
              /\ \E h \in HitsInRange : Unwrap(brute).parameter = Unwrap(h).parameter
        /\ \A p \in Permutations(1 .. Len(scene)) :
              LET other == World_hit(Reordered(p), Unwrap(ray), position_min, position_max,
                                     PosInf)
              IN  /\ IsSome(other) <=> IsSome(brute)
                  /\ IsSome(other) => Unwrap(other).parameter = Unwrap(brute).parameter

---------------------------------------------------------------------------
(* ray.rs: find_offset_point, on the bit patterns of f32 *)

\* 2^e as a value, for -30 <= e <= 30
Exp2(e) == IF e >= 0 THEN R(Pow2(e)) ELSE Q(1, Pow2(-e))

\* the exponent of a finite a > 0: the greatest e <= from with 2^e <= a
RECURSIVE FloorLog2(_, _)
FloorLog2(a, from) == IF Le(Exp2(from), a) THEN from ELSE FloorLog2(a, from - 1)

\* `x as u32` for a float: truncated towards zero, negative values and NaN
\* saturate to 0
AsU32(x) == IF IsNaN(x) \/ Le(x, R(0)) THEN 0 ELSE x[1] \div x[2]

\* from_bits(to_bits(a).wrapping_add(k)) for a normal a > 0 and k at most its
\* distance to the next power of two: k steps up, each of 2^(exponent - 23)
BitsAdd(a, k) == Add(a, Mul(R(k), Exp2(FloorLog2(a, 8) - 23)))

\* from_bits(to_bits(a).wrapping_sub(k)) for a normal a < 0 and k <= 2^22: the
\* magnitude goes k steps down; below a power of two the steps are half as wide
BitsSub(a, k) ==
    With(FloorLog2(Neg(a), 8), LAMBDA e :
        IF k = 0 THEN a
        ELSE IF Neg(a) = Exp2(e) THEN Add(a, Mul(R(k), Exp2(e - 24)))
        ELSE Add(a, Mul(R(k), Exp2(e - 23))))

\* one coordinate of find_offset_point.  For the coordinate 0.0 the bit pattern
\* k is a denormal below 2^-140, which the f32 addition of float_scale * normal
\* rounds away (and k = 0 when that product is 0).
find_offset_coordinate(coordinate, normal) ==
    With(AsU32(Mul(R(256), normal)), LAMBDA offset_int :
        IF coordinate = R(0) THEN Mul(Q(1, 65536), normal)
        ELSE With(IF Lt(coordinate, R(0)) THEN BitsSub(coordinate, offset_int)
                  ELSE BitsAdd(coordinate, offset_int), LAMBDA point_int :
                 IF Lt(FAbs(coordinate), Q(1, 32))
                 THEN Add(point_int, Mul(Q(1, 65536), normal))
                 ELSE point_int))

\* find_offset_point
find_offset_point(point, geometric_normal) ==
    [i \in 1 .. 3 |-> find_offset_coordinate(point[i], geometric_normal[i])]

\* find_offset_point with no displacement at all
find_offset_point_identity(point, geometric_normal) == point

\* integrator.rs:67-72: the origin of the scattered ray; sphere_point is what
\* pick_sphere_point returns
OffsetOrigin(hit, sphere_point) ==
    IF hit.geometric_normal # hit.shading_normal
    THEN VAdd(find_offset_point(hit.point, hit.geometric_normal), sphere_point)
    ELSE hit.point

---------------------------------------------------------------------------
(* SpecOffset: the origin compute_color gives the ray scattered at a hit *)

\* coordinates of the hit point: below and above 1/32 in magnitude, of either
\* sign, powers of two and not
OffsetCoords == {R(-2), Q(-3, 2), Q(-1, 64), R(0), Q(1, 64), R(1), Q(3, 2)}

\* unit vectors along the axes: the geometric normals, and what
\* pick_sphere_point can return
AxisNormals == {V(1, 0, 0), V(-1, 0, 0), V(0, 1, 0), V(0, -1, 0), V(0, 0, 1), V(0, 0, -1)}

\* the shading normal of the hit: the geometric normal, or the interpolated
\* normal of a triangle that differs from it
ShadingNormals(n) == {n, <<Q(3, 5), Q(4, 5), R(0)>>}

InitOffset ==
    /\ build \in Builds
    /\ scene = <<>>
    /\ objects = scene
    /\ bvh = Unbuilt
    /\ ray = None
    /\ position_min = Q(1, 100)
    /\ position_max = FMAX
    /\ \E x \in OffsetCoords, y \in OffsetCoords, z \in OffsetCoords, n \in AxisNormals :
          \E sn \in ShadingNormals(n) :
              record = Some(HitRecord_new(R(1), R(0), R(0), <<x, y, z>>, n, sn,
                                            Diffuse_new(White)))
    /\ brute = None
    /\ NoBoxes
    /\ NoShading
    /\ NoSampling
    /\ NoPath
    /\ NoRender
    /\ pc = "hit"

\* integrator.rs:67-73: the scattered ray leaves the offset point; its direction
\* here is the one the cosine child generates for r2 = 0, the shading normal
ScatterFrom ==
    /\ pc = "hit"
    /\ \E sphere_point \in AxisNormals :
          ray' = Some(Ray_new(OffsetOrigin(Unwrap(record), sphere_point),
                              Unwrap(record).shading_normal, R(0)))
    /\ pc' = "scattered"
    /\ UNCHANGED <<build, scene, objects, bvh, position_min, position_max, record,
                   brute, boxes, box_out, emitted, scattered, sampling, path, render>>

NextOffset == ScatterFrom

SpecOffset == InitOffset /\ [][NextOffset]_vars

\* the coordinate moved from `from` to `to` in the direction of the sign of n
MovedAlong(from, to, n) ==
    /\ Gt(n, R(0)) => Gt(to, from)
    /\ Lt(n, R(0)) => Lt(to, from)
    /\ n = R(0) => to = from

\* C23 as claimed: the origin of the scattered ray is the hit point when the
\* two normals of the hit are equal; when they differ it is what
\* find_offset_point returns for the hit point and the geometric normal, with
\* nothing else added, and each coordinate has moved in the direction of the
\* sign of the geometric normal's component on that axis
C23_OriginOffsetAlongGeometricNormal ==
    pc = "scattered" =>
        LET hit == Unwrap(record)
            origin == Unwrap(ray).origin
        IN  IF hit.geometric_normal = hit.shading_normal
            THEN origin = hit.point
            ELSE /\ origin = find_offset_point(hit.point, hit.geometric_normal)
                 /\ \A i \in 1 .. 3 :
                       MovedAlong(hit.point[i], origin[i], hit.geometric_normal[i])

---------------------------------------------------------------------------
(* SpecRoulette: the Russian roulette of compute_color on its own, for the
   throughputs a path can hold at the end of an iteration *)

\* the values of a channel of the throughput: negative, zero, below one, one,
\* above one, infinite and NaN
Channels == {R(-1), R(0), Q(1, 4), Q(1, 2), R(1), R(2), PosInf, NaN}

InitRoulette ==
    /\ build \in Builds
    /\ scene = <<>>
    /\ objects = scene
    /\ bvh = Unbuilt
    /\ NoQuery
    /\ NoBoxes
    /\ NoShading
    /\ NoSampling
    /\ light_source = None
    /\ atmosphere = FALSE
    /\ bounces = MaxBounces
    /\ bounce \in 0 .. MaxBounces
    /\ color = VZero
    /\ throughput \in {<<r, g, b>> : r \in Channels, g \in Channels, b \in Channels}
    /\ queries = 0
    /\ roulette_draws = 0
    /\ roulette_draw = None
    /\ NoRender
    /\ pc = "roulette"

\* integrator.rs:95-101 for the iteration `bounce`
RouletteStep ==
    /\ pc = "roulette"
    /\ \E draw \in RouletteDraws(bounce) :
       \E last \in {Roulette(throughput, bounce, draw)} :
          /\ throughput' = last.throughput
          /\ roulette_draws' = roulette_draws + last.drew
          /\ roulette_draw' = IF last.drew = 1 THEN Some(draw) ELSE roulette_draw
          /\ pc' = IF last.drew = 0 THEN "skipped"
                   ELSE IF last.stop THEN "terminated" ELSE "survived"
    /\ UNCHANGED <<build, scene, objects, bvh, ray, position_min, position_max,
                   record, brute, boxes, box_out, emitted, scattered, sampling,
                   light_source, atmosphere, bounces, bounce, color, queries, render>>

NextRoulette == RouletteStep

SpecRoulette == InitRoulette /\ [][NextRoulette]_vars

\* max(1 - max_channel(tp), 0.05)
RouletteFactorOf(tp) == ScalarMax(Sub(R(1), MaxElement(tp)), Q(1, 20))

\* C21 as claimed: from bounce 4 on, with p = max(1 - max_channel(throughput),
\* 0.05) the path is terminated exactly when the draw is below 1 - p, and the
\* throughput of a path that goes on is the throughput before divided by p
C21_FactorIsSurvivalProbability ==
    [][(pc = "roulette" /\ bounce > 3) =>
           LET p == RouletteFactorOf(throughput)
           IN  /\ pc' = "terminated" <=> Lt(Unwrap(roulette_draw'), Sub(R(1), p))
               /\ pc' = "survived" =>
                     \A i \in 1 .. 3 : throughput'[i] = Div(throughput[i], p)]_vars

\* C21 amended: no roulette is played for bounce <= 3; from bounce 4 on, with
\* q = max(1 - max_channel(throughput), 0.05) the path is terminated exactly
\* when the draw is below q, and the throughput of a path that goes on is the
\* throughput before divided by 1 - q, so that the survival probability 1 - q
\* times the throughput after is the throughput before
C21_RouletteKeepsExpectation ==
    [][pc = "roulette" =>
           LET q == RouletteFactorOf(throughput)
           IN  /\ bounce <= 3 =>
                     pc' = "skipped" /\ throughput' = throughput /\ roulette_draw' = None
               /\ bounce > 3 =>
                     /\ pc' \in {"terminated", "survived"}
                     /\ pc' = "terminated" <=> Lt(Unwrap(roulette_draw'), q)
                     /\ pc' = "survived" =>
                           \A i \in 1 .. 3 :
                               /\ throughput'[i] = Div(throughput[i], Sub(R(1), q))
                               /\ Mul(Sub(R(1), q), throughput'[i]) = throughput[i]]_vars

\* C21 witness: a path of throughput 1/2 survived the draw 1/2 at a bounce
\* after the third and goes on with throughput 1
C21_Witness ==
    /\ pc = "survived"
    /\ bounce > 3
    /\ roulette_draw = Some(Q(1, 2))
    /\ throughput = V(1, 1, 1)

\* C27: whenever the roulette does not terminate the path, the divisor
\* 1 - roulette_factor of the throughput is strictly positive, whatever the
\* throughput (negative, zero, infinite and NaN channels included) and the draw
C27_DivisorPositive ==
    [][(pc = "roulette" /\ pc' = "survived") =>
           Gt(Sub(R(1), RouletteFactorOf(throughput)), R(0))]_vars

\* C27 witness: a path whose greatest channel is not positive has been through
\* the roulette, and was terminated
C27_Witness ==
    /\ pc = "terminated"
    /\ Le(MaxElement(throughput), R(0))
    /\ IsSome(roulette_draw)

---------------------------------------------------------------------------
(* SpecRender: main builds the scene and fills the pixels in parallel *)

\* width * height, and the number of threads in rayon's pool
NPixels == 3

NWorkers == 2

PixelIndices == 1 .. NPixels

WorkerIds == 1 .. NWorkers

\* a worker between two items of the parallel iterator
Idle == 0

\* image::Rgb([0, 0, 0]), and the values a closure may store
Black == <<0, 0, 0>>

PixelValues == {Black, <<255, 255, 255>>}

\* the scene main builds: two walls of the Cornell box
CornellWorld ==
    <<Rectangle_new("YZ", R(0), R(2), R(0), R(2), R(2), Diffuse_new(White)),
      Rectangle_new("XZ", R(0), R(2), R(0), R(2), R(0), Diffuse_new(White))>>

InitRender ==
    /\ build \in Builds
    /\ NoScene
    /\ NoQuery
    /\ NoBoxes
    /\ NoShading
    /\ NoSampling
    /\ NoPath
    /\ NoRender
    /\ pc = "start"

\* let world = cornell_box_scene(); let mut pixels = vec![Rgb([0, 0, 0]); n];
\* then par_iter_mut().enumerate().for_each starts with every worker idle
BuildWorld ==
    /\ pc = "start"
    /\ scene' = CornellWorld
    /\ pixels' = [i \in PixelIndices |-> Black]
    /\ writes' = [i \in PixelIndices |-> <<>>]
    /\ taken' = {}
    /\ workers' = [w \in WorkerIds |-> Idle]
    /\ pc' = "rendering"
    /\ UNCHANGED <<build, objects, bvh, ray, position_min, position_max, record, brute,
                   boxes, box_out, emitted, scattered, sampling, path>>

\* a worker that takes an item without removing it from the iterator
TakeShared(w) ==
    /\ pc = "rendering"
    /\ workers[w] = Idle
    /\ \E i \in PixelIndices \ taken :
          /\ workers' = [workers EXCEPT ![w] = i]
          /\ taken' = taken
    /\ UNCHANGED <<build, scene, objects, bvh, ray, position_min, position_max, record,
                   brute, boxes, box_out, emitted, scattered, sampling, path, pixels,
                   writes, pc>>

\* the parallel iterator hands the next item (i, &mut pixels[i]) to an idle
\* worker, which starts the closure for it
Take(w) ==
    /\ pc = "rendering"
    /\ workers[w] = Idle
    /\ \E i \in PixelIndices \ taken :
          /\ workers' = [workers EXCEPT ![w] = i]
          /\ taken' = taken \cup {i}
    /\ UNCHANGED <<build, scene, objects, bvh, ray, position_min, position_max, record,
                   brute, boxes, box_out, emitted, scattered, sampling, path, pixels,
                   writes, pc>>

\* the closure has read camera and world for its samples and stores its colour:
\* *pixel = image::Rgb([..])
WritePixel(w) ==
    /\ pc = "rendering"
    /\ workers[w] # Idle
    /\ scene # <<>>
    /\ \E value \in PixelValues :
          pixels' = [pixels EXCEPT ![workers[w]] = value]
    /\ writes' = [writes EXCEPT ![workers[w]] = Append(@, w)]
    /\ workers' = [workers EXCEPT ![w] = Idle]
    /\ UNCHANGED <<build, scene, objects, bvh, ray, position_min, position_max, record,
                   brute, boxes, box_out, emitted, scattered, sampling, path, taken, pc>>

\* for_each returns when every item has been handed out and every closure is done
JoinWorkers ==
    /\ pc = "rendering"
    /\ taken = PixelIndices
    /\ \A w \in WorkerIds : workers[w] = Idle
    /\ pc' = "joined"
    /\ UNCHANGED <<build, scene, objects, bvh, ray, position_min, position_max, record,
                   brute, boxes, box_out, emitted, scattered, sampling, path, render>>

NextRender ==
    \/ BuildWorld
    \/ \E w \in WorkerIds : Take(w)
    \/ \E w \in WorkerIds : WritePixel(w)
    \/ JoinWorkers

SpecRender == InitRender /\ [][NextRender]_vars

\* C14: the scene exists before a worker runs and is not changed afterwards;
\* no two workers run for the same pixel slot at the same time, a slot is
\* stored to at most once and only by the worker it was handed to, and when
\* the loop has returned every slot has been stored to exactly once
C14_DisjointPixelWrites ==
    /\ [](pc \in {"rendering", "joined"} =>
             /\ scene = CornellWorld
             /\ \A w1 \in WorkerIds, w2 \in WorkerIds :
                   (w1 # w2 /\ workers[w1] # Idle) => workers[w1] # workers[w2]
             /\ \A w \in WorkerIds :
                   workers[w] # Idle => (workers[w] \in taken /\ writes[workers[w]] = <<>>)
             /\ \A i \in PixelIndices :
                   /\ Len(writes[i]) <= 1
                   /\ (i \notin taken) => (writes[i] = <<>> /\ pixels[i] = Black)
             /\ pc = "joined" => \A i \in PixelIndices : Len(writes[i]) = 1)
    /\ [][pc # "start" => scene' = scene]_vars

\* the loop has returned and two different workers have stored pixels
C14_Witness ==
    /\ pc = "joined"
    /\ \E i \in PixelIndices, j \in PixelIndices : writes[i] # writes[j]

=============================================================================
